---- MODULE Spec2Model ----
(***************************************************************************)
(* ResourceCache (src/Source/Core/EllipsoidGeometry.js, lines 626-1378):   *)
(* the reference-counted registry of resource loaders, its typed           *)
(* constructors and clearForSpecs, together with the loaders' lifecycle   *)
(* contract (load / destroy / dependency acquisition) of spec.md 4.2.     *)
(*                                                                         *)
(* Every cache call is one action: the handler and every call it makes     *)
(* (loader.load(), loader.destroy(), nested typed loads and unloads) run   *)
(* to completion inside the step, as on the single control thread.         *)
(***************************************************************************)
EXTENDS Integers, Sequences, FiniteSets, TLC

VARIABLES
  cacheEntries,  \* ResourceCache.cacheEntries: cacheKey -> CacheEntry (own properties only)
  keyOrder,      \* insertion order of the own properties of cacheEntries (for..in order)
  loaders,       \* every loader instance constructed so far, by instance id 1..Len
  held,          \* per loader instance: references top-level consumers acquired and have not released
  lastCall,      \* the call made by the last step: operation, key, return value, error, and
                 \* for an unload the load state its argument was in
  run,           \* the current run of consecutive typed loads / unloads on the watched key's entry
  phase,         \* "open" while consumers make requests, "closing" once they only release
  tile,          \* the last preproces3DTileContent call: its payload and its outcome
  geo            \* the EllipsoidGeometry under hand: the instance, the array it was packed
                 \* into, and the outcome of the last constructor / pack / unpack call

vars == <<cacheEntries, keyOrder, loaders, held, lastCall, run, phase, tile, geo>>

-----------------------------------------------------------------------------
(* Bounds of the model *)

MaxLoaders == 3   \* loader instances constructed in one behaviour
MaxRefs == 3      \* cap on referenceCount and on a consumer's held references
MaxCalls == 2     \* cap on the load() / destroy() calls counted per loader

-----------------------------------------------------------------------------
(* JavaScript values of the option objects: a typeof tag and an identity *)

Undef == [t |-> "undefined", v |-> 0]
Obj(i) == [t |-> "object", v |-> i]
Num(i) == [t |-> "number", v |-> i]
Bool(b) == [t |-> "boolean", v |-> IF b THEN 1 ELSE 0]
Str(i) == [t |-> "string", v |-> i]

defined(x) == x.t # "undefined"
defaultValue(a, b) == IF defined(a) THEN a ELSE b
typeOf(x, t) == x.t = t

\* `return undefined` / no loader: loader instances are 1, 2, ...
Undefined == 0

CacheKeys == {"bufferView", "vertexBuffer"}

-----------------------------------------------------------------------------
(* The machine state a handler runs on: the registry, the loaders, and the  *)
(* handler's outcome (return value, exception).                             *)

Ok(s) == s.thrown = "none"
Throw(s, e) == [s EXCEPT !.thrown = e, !.ret = Undefined]

CacheEntry(resourceLoader, keepResident) ==
  [referenceCount |-> 1, resourceLoader |-> resourceLoader, keepResident |-> keepResident]

\* delete ResourceCache.cacheEntries[cacheKey]
Delete(s, cacheKey) ==
  [s EXCEPT !.cacheEntries = [k \in (DOMAIN s.cacheEntries) \ {cacheKey} |-> s.cacheEntries[k]],
            !.keyOrder = SelectSeq(s.keyOrder, LAMBDA k : k # cacheKey)]

\* new XLoader({..., cacheKey: cacheKey}): a fresh instance, UNLOADED, holding no dependency
NewLoader(s, cacheKey) ==
  [s EXCEPT !.loaders = Append(@, [cacheKey |-> cacheKey, state |-> "UNLOADED",
                                   dep |-> Undefined, entryAtLoad |-> 0,
                                   supportedImageFormats |-> Undef,
                                   loadCalls |-> 0, destroyCalls |-> 0])]

\* ResourceCache.get
get_TouchOnMiss(s, cacheKey) ==
  IF cacheKey \in DOMAIN s.cacheEntries
  THEN [s EXCEPT !.cacheEntries[cacheKey].referenceCount = @ + 1,
                 !.ret = s.cacheEntries[cacheKey].resourceLoader]
  ELSE [s EXCEPT !.keyOrder = Append(@, cacheKey), !.ret = Undefined]

get_DoubleIncrement(s, cacheKey) ==
  IF cacheKey \in DOMAIN s.cacheEntries
  THEN [s EXCEPT !.cacheEntries[cacheKey].referenceCount = @ + 2,
                 !.ret = s.cacheEntries[cacheKey].resourceLoader]
  ELSE [s EXCEPT !.ret = Undefined]

get_HitReturnsNothing(s, cacheKey) ==
  IF cacheKey \in DOMAIN s.cacheEntries
  THEN [s EXCEPT !.cacheEntries[cacheKey].referenceCount = @ + 1, !.ret = Undefined]
  ELSE [s EXCEPT !.ret = Undefined]

get_NoIncrement(s, cacheKey) ==
  IF cacheKey \in DOMAIN s.cacheEntries
  THEN [s EXCEPT !.ret = s.cacheEntries[cacheKey].resourceLoader]
  ELSE [s EXCEPT !.ret = Undefined]

get(s, cacheKey) ==
  IF cacheKey \in DOMAIN s.cacheEntries
  THEN [s EXCEPT !.cacheEntries[cacheKey].referenceCount = @ + 1,
                 !.ret = s.cacheEntries[cacheKey].resourceLoader]
  ELSE [s EXCEPT !.ret = Undefined]

-----------------------------------------------------------------------------
(* CacheKey Deriver (ResourceCacheKey, external): a canonical key per       *)
(* descriptor. The modelled document has two buffer views (0 and 1) that    *)
(* describe the same bytes, and one vertex buffer made from them: requests  *)
(* for the same bytes collide to one key.                                   *)

getBufferViewCacheKey(options) == "bufferView"
getVertexBufferCacheKey(options) == "vertexBuffer"

\* Options a loader passes when it acquires its dependency through the cache
Resource == Obj(1)
Gltf == Obj(2)
BufferViewOptions ==
  [gltf |-> Gltf, bufferViewId |-> Num(0), gltfResource |-> Resource,
   baseResource |-> Resource, keepResident |-> Undef]

\* The loaders that acquire a dependency: a vertex-buffer loader acquires its
\* buffer-view loader during its own load().
Dependent == {"vertexBuffer"}

\* The loaders whose load() raises synchronously: the buffer loader of a resource
\* that cannot be fetched
Raising == {"externalBuffer:raising"}

RECURSIVE load(_, _, _), LoaderLoad(_, _), loadBufferView(_, _)
RECURSIVE unload(_, _), LoaderDestroy(_, _)

\* ResourceCache.load
load_NoDuplicateCheck(s, resourceLoader, keepResident) ==
  LET cacheKey == s.loaders[resourceLoader].cacheKey
      s1 == [s EXCEPT !.cacheEntries =
                         [k \in (DOMAIN s.cacheEntries) \cup {cacheKey} |->
                            IF k = cacheKey THEN CacheEntry(resourceLoader, keepResident)
                            ELSE s.cacheEntries[k]],
                      !.keyOrder = IF cacheKey \in DOMAIN s.cacheEntries THEN @
                                   ELSE Append(@, cacheKey)]
  IN LoaderLoad(s1, resourceLoader)

load_LoadBeforeInsert(s, resourceLoader, keepResident) ==
  LET cacheKey == s.loaders[resourceLoader].cacheKey IN
  IF cacheKey \in DOMAIN s.cacheEntries
  THEN Throw(s, "Resource with this cacheKey is already in the cache")
  ELSE LET s1 == LoaderLoad(s, resourceLoader)
       IN IF ~Ok(s1) THEN s1
          ELSE [s1 EXCEPT !.cacheEntries =
                             [k \in (DOMAIN s1.cacheEntries) \cup {cacheKey} |->
                                IF k = cacheKey THEN CacheEntry(resourceLoader, keepResident)
                                ELSE s1.cacheEntries[k]],
                          !.keyOrder = Append(@, cacheKey)]

\* a variant that takes the entry out again when load() raises
load_RollbackOnRaise(s, resourceLoader, keepResident) ==
  LET cacheKey == s.loaders[resourceLoader].cacheKey IN
  IF cacheKey \in DOMAIN s.cacheEntries
  THEN Throw(s, "Resource with this cacheKey is already in the cache")
  ELSE LET s1 == [s EXCEPT !.cacheEntries =
                              [k \in (DOMAIN s.cacheEntries) \cup {cacheKey} |->
                                 IF k = cacheKey THEN CacheEntry(resourceLoader, keepResident)
                                 ELSE s.cacheEntries[k]],
                           !.keyOrder = Append(@, cacheKey)]
           s2 == LoaderLoad(s1, resourceLoader)
       IN IF Ok(s2) THEN s2 ELSE Delete(s2, cacheKey)

load(s, resourceLoader, keepResident) ==
  LET cacheKey == s.loaders[resourceLoader].cacheKey IN
  IF cacheKey \in DOMAIN s.cacheEntries
  THEN Throw(s, "Resource with this cacheKey is already in the cache")
  ELSE LET s1 == [s EXCEPT !.cacheEntries =
                              [k \in (DOMAIN s.cacheEntries) \cup {cacheKey} |->
                                 IF k = cacheKey THEN CacheEntry(resourceLoader, keepResident)
                                 ELSE s.cacheEntries[k]],
                           !.keyOrder = Append(@, cacheKey)]
       IN LoaderLoad(s1, resourceLoader)

\* ResourceCache.loadBufferView
loadBufferView_AlwaysConstruct(s, options) ==
  LET keepResident == defaultValue(options.keepResident, Bool(FALSE))
      cacheKey == getBufferViewCacheKey(options)
      s2 == NewLoader(s, cacheKey)
      bufferViewLoader == Len(s2.loaders)
      s3 == load_NoDuplicateCheck(s2, bufferViewLoader, keepResident.v = 1)
  IN [s3 EXCEPT !.ret = bufferViewLoader]

\* a variant whose miss registers again an instance constructed earlier for the key
loadBufferView_ReuseInstance(s, options) ==
  LET keepResident == defaultValue(options.keepResident, Bool(FALSE))
      cacheKey == getBufferViewCacheKey(options)
      earlier == {l \in 1..Len(s.loaders) : s.loaders[l].cacheKey = cacheKey}
      s1 == get(s, cacheKey)
  IN IF s1.ret # Undefined THEN s1
     ELSE IF earlier # {}
     THEN LET bufferViewLoader == CHOOSE l \in earlier : TRUE
              s3 == load(s1, bufferViewLoader, keepResident.v = 1)
          IN IF Ok(s3) THEN [s3 EXCEPT !.ret = bufferViewLoader] ELSE s3
     ELSE LET s2 == NewLoader(s1, cacheKey)
              bufferViewLoader == Len(s2.loaders)
              s3 == load(s2, bufferViewLoader, keepResident.v = 1)
          IN IF Ok(s3) THEN [s3 EXCEPT !.ret = bufferViewLoader] ELSE s3

\* a variant whose hit adopts the keepResident of the call
loadBufferView_HitSetsResident(s, options) ==
  LET gltf == options.gltf
      bufferViewId == options.bufferViewId
      gltfResource == options.gltfResource
      baseResource == options.baseResource
      keepResident == defaultValue(options.keepResident, Bool(FALSE))
  IN IF ~typeOf(gltf, "object") THEN Throw(s, "DeveloperError: options.gltf")
     ELSE IF ~typeOf(bufferViewId, "number") THEN Throw(s, "DeveloperError: options.bufferViewId")
     ELSE IF ~typeOf(gltfResource, "object") THEN Throw(s, "DeveloperError: options.gltfResource")
     ELSE IF ~typeOf(baseResource, "object") THEN Throw(s, "DeveloperError: options.baseResource")
     ELSE LET cacheKey == getBufferViewCacheKey(options)
              s1 == get(s, cacheKey)
          IN IF s1.ret # Undefined
             THEN [s1 EXCEPT !.cacheEntries[cacheKey].keepResident = @ \/ keepResident.v = 1]
             ELSE LET s2 == NewLoader(s1, cacheKey)
                      bufferViewLoader == Len(s2.loaders)
                      s3 == load(s2, bufferViewLoader, keepResident.v = 1)
                  IN IF Ok(s3) THEN [s3 EXCEPT !.ret = bufferViewLoader] ELSE s3

loadBufferView(s, options) ==
  LET gltf == options.gltf
      bufferViewId == options.bufferViewId
      gltfResource == options.gltfResource
      baseResource == options.baseResource
      keepResident == defaultValue(options.keepResident, Bool(FALSE))
  IN IF ~typeOf(gltf, "object") THEN Throw(s, "DeveloperError: options.gltf")
     ELSE IF ~typeOf(bufferViewId, "number") THEN Throw(s, "DeveloperError: options.bufferViewId")
     ELSE IF ~typeOf(gltfResource, "object") THEN Throw(s, "DeveloperError: options.gltfResource")
     ELSE IF ~typeOf(baseResource, "object") THEN Throw(s, "DeveloperError: options.baseResource")
     ELSE LET cacheKey == getBufferViewCacheKey(options)
              s1 == get(s, cacheKey)
          IN IF s1.ret # Undefined THEN s1
             ELSE LET s2 == NewLoader(s1, cacheKey)
                      bufferViewLoader == Len(s2.loaders)
                      s3 == load(s2, bufferViewLoader, keepResident.v = 1)
                  IN IF Ok(s3) THEN [s3 EXCEPT !.ret = bufferViewLoader] ELSE s3

\* ResourceCache.loadVertexBuffer
loadVertexBuffer(s, options) ==
  LET gltf == options.gltf
      gltfResource == options.gltfResource
      baseResource == options.baseResource
      bufferViewId == options.bufferViewId
      draco == options.draco
      dracoAttributeSemantic == options.dracoAttributeSemantic
      keepResident == defaultValue(options.keepResident, Bool(FALSE))
      hasBufferViewId == defined(bufferViewId)
      hasDraco == defined(draco)
      hasDracoAttributeSemantic == defined(dracoAttributeSemantic)
  IN IF ~typeOf(gltf, "object") THEN Throw(s, "DeveloperError: options.gltf")
     ELSE IF ~typeOf(gltfResource, "object") THEN Throw(s, "DeveloperError: options.gltfResource")
     ELSE IF ~typeOf(baseResource, "object") THEN Throw(s, "DeveloperError: options.baseResource")
     ELSE IF hasBufferViewId = hasDraco
          THEN Throw(s, "One of options.bufferViewId and options.draco must be defined.")
     ELSE IF hasDraco /\ ~hasDracoAttributeSemantic
          THEN Throw(s, "When options.draco is defined options.dracoAttributeSemantic must also be defined.")
     \* Check.typeOf.object(draco): the value takes the place of the name, the
     \* tested value is undefined, and typeof undefined is not "object"
     ELSE IF hasDraco /\ ~typeOf(Undef, "object") THEN Throw(s, "DeveloperError: draco")
     ELSE IF hasDraco /\ ~typeOf(Undef, "string") THEN Throw(s, "DeveloperError: dracoAttributeSemantic")
     ELSE LET cacheKey == getVertexBufferCacheKey(options)
              s1 == get(s, cacheKey)
          IN IF s1.ret # Undefined THEN s1
             ELSE LET s2 == NewLoader(s1, cacheKey)
                      vertexBufferLoader == Len(s2.loaders)
                      s3 == load(s2, vertexBufferLoader, keepResident.v = 1)
                  IN IF Ok(s3) THEN [s3 EXCEPT !.ret = vertexBufferLoader] ELSE s3

(* The loader side of the contract (spec.md 4.2) *)

\* The typed load by which loader l acquires its dependency; the loader keeps the
\* returned loader in a field (dep) until it releases it.
LoaderAcquire(s, l) ==
  LET s1 == loadBufferView(s, BufferViewOptions)
  IN IF Ok(s1)
     THEN [s1 EXCEPT !.loaders[l].dep = s1.ret]
     ELSE s1

\* loader.load(): UNLOADED -> LOADING (a repeated call changes no state), and the
\* dependency acquisition of the kinds that have one. entryAtLoad records what a
\* lookup of the loader's own key finds when load() is entered: the
\* referenceCount of the entry that holds this loader, 0 when there is none.
LoaderLoad(s, l) ==
  LET cacheKey == s.loaders[l].cacheKey
      s1 == [s EXCEPT !.loaders[l].loadCalls = @ + 1,
                      !.loaders[l].entryAtLoad =
                         IF cacheKey \in DOMAIN s.cacheEntries
                            /\ s.cacheEntries[cacheKey].resourceLoader = l
                         THEN s.cacheEntries[cacheKey].referenceCount ELSE 0,
                      !.loaders[l].state = IF @ = "UNLOADED" THEN "LOADING" ELSE @]
  IN IF s.loaders[l].cacheKey \in Raising
     THEN Throw([s1 EXCEPT !.loaders[l].state = "FAILED"], "Error: load() raised")
     ELSE IF s.loaders[l].state = "UNLOADED" /\ s.loaders[l].cacheKey \in Dependent
     THEN LoaderAcquire(s1, l)
     ELSE s1

\* loader.destroy(): unloads the resource (the loader is UNLOADED again and its
\* pending work is aborted) and releases the dependency it acquired with one unload
LoaderDestroy(s, l) ==
  LET s1 == [s EXCEPT !.loaders[l].destroyCalls = @ + 1, !.loaders[l].state = "UNLOADED"]
      dep == s.loaders[l].dep
  IN IF dep = Undefined THEN s1
     ELSE LET s2 == unload(s1, dep)
          IN IF Ok(s2) THEN [s2 EXCEPT !.loaders[l].dep = Undefined] ELSE s2

\* ResourceCache.unload
unload_NoDecrement(s, resourceLoader) ==
  LET cacheKey == s.loaders[resourceLoader].cacheKey IN
  IF cacheKey \notin DOMAIN s.cacheEntries
  THEN Throw(s, "Resource is not in the cache")
  ELSE IF s.cacheEntries[cacheKey].referenceCount = 0
  THEN Throw(s, "Cannot unload resource that has no references.")
  ELSE s

unload_NoDestroy(s, resourceLoader) ==
  LET cacheKey == s.loaders[resourceLoader].cacheKey IN
  IF cacheKey \notin DOMAIN s.cacheEntries
  THEN Throw(s, "Resource is not in the cache")
  ELSE IF s.cacheEntries[cacheKey].referenceCount = 0
  THEN Throw(s, "Cannot unload resource that has no references.")
  ELSE [s EXCEPT !.cacheEntries[cacheKey].referenceCount = @ - 1]

unload_OnlyWhenReady(s, resourceLoader) ==
  LET cacheKey == s.loaders[resourceLoader].cacheKey IN
  IF cacheKey \notin DOMAIN s.cacheEntries
  THEN Throw(s, "Resource is not in the cache")
  ELSE IF s.cacheEntries[cacheKey].referenceCount = 0
  THEN Throw(s, "Cannot unload resource that has no references.")
  ELSE LET s1 == [s EXCEPT !.cacheEntries[cacheKey].referenceCount = @ - 1]
           cacheEntry == s1.cacheEntries[cacheKey]
       IN IF /\ cacheEntry.referenceCount = 0 /\ ~cacheEntry.keepResident
             /\ s.loaders[resourceLoader].state = "READY"
          THEN LET s2 == LoaderDestroy(s1, resourceLoader)
               IN IF Ok(s2) THEN Delete(s2, cacheKey) ELSE s2
          ELSE s1

unload_NoZeroCheck(s, resourceLoader) ==
  LET cacheKey == s.loaders[resourceLoader].cacheKey IN
  IF cacheKey \notin DOMAIN s.cacheEntries
  THEN Throw(s, "Resource is not in the cache")
  ELSE LET s1 == [s EXCEPT !.cacheEntries[cacheKey].referenceCount = @ - 1]
           cacheEntry == s1.cacheEntries[cacheKey]
       IN IF cacheEntry.referenceCount = 0 /\ ~cacheEntry.keepResident
          THEN LET s2 == LoaderDestroy(s1, resourceLoader)
               IN IF Ok(s2) THEN Delete(s2, cacheKey) ELSE s2
          ELSE s1

unload_IgnoreKeepResident(s, resourceLoader) ==
  LET cacheKey == s.loaders[resourceLoader].cacheKey IN
  IF cacheKey \notin DOMAIN s.cacheEntries
  THEN Throw(s, "Resource is not in the cache")
  ELSE IF s.cacheEntries[cacheKey].referenceCount = 0
  THEN Throw(s, "Cannot unload resource that has no references.")
  ELSE LET s1 == [s EXCEPT !.cacheEntries[cacheKey].referenceCount = @ - 1]
           cacheEntry == s1.cacheEntries[cacheKey]
       IN IF cacheEntry.referenceCount = 0
          THEN LET s2 == LoaderDestroy(s1, resourceLoader)
               IN IF Ok(s2) THEN Delete(s2, cacheKey) ELSE s2
          ELSE s1

unload_DestroyEarly(s, resourceLoader) ==
  LET cacheKey == s.loaders[resourceLoader].cacheKey IN
  IF cacheKey \notin DOMAIN s.cacheEntries
  THEN Throw(s, "Resource is not in the cache")
  ELSE IF s.cacheEntries[cacheKey].referenceCount = 0
  THEN Throw(s, "Cannot unload resource that has no references.")
  ELSE LET s1 == [s EXCEPT !.cacheEntries[cacheKey].referenceCount = @ - 1]
           cacheEntry == s1.cacheEntries[cacheKey]
       IN IF cacheEntry.referenceCount <= 1 /\ ~cacheEntry.keepResident
          THEN LET s2 == LoaderDestroy(s1, resourceLoader)
               IN IF Ok(s2) THEN Delete(s2, cacheKey) ELSE s2
          ELSE s1

unload(s, resourceLoader) ==
  LET cacheKey == s.loaders[resourceLoader].cacheKey IN
  IF cacheKey \notin DOMAIN s.cacheEntries
  THEN Throw(s, "Resource is not in the cache")
  ELSE IF s.cacheEntries[cacheKey].referenceCount = 0
  THEN Throw(s, "Cannot unload resource that has no references.")
  ELSE LET s1 == [s EXCEPT !.cacheEntries[cacheKey].referenceCount = @ - 1]
           cacheEntry == s1.cacheEntries[cacheKey]
       IN IF cacheEntry.referenceCount = 0 /\ ~cacheEntry.keepResident
          THEN LET s2 == LoaderDestroy(s1, resourceLoader)
               IN IF Ok(s2) THEN Delete(s2, cacheKey) ELSE s2
          ELSE s1

\* ResourceCache.clearForSpecs: for (cacheKey in cacheEntries) visits the keys in
\* insertion order and skips a key deleted before it is reached; an exception
\* from destroy() ends the loop with the entry still in place.
RECURSIVE clearLoop(_, _)
clearLoop(s, keys) ==
  IF keys = <<>> THEN s
  ELSE LET cacheKey == Head(keys) IN
       IF cacheKey \notin DOMAIN s.cacheEntries THEN clearLoop(s, Tail(keys))
       ELSE LET cacheEntry == s.cacheEntries[cacheKey]
                s1 == LoaderDestroy(s, cacheEntry.resourceLoader)
            IN IF Ok(s1) THEN clearLoop(Delete(s1, cacheKey), Tail(keys)) ELSE s1

clearForSpecs(s) == clearLoop(s, s.keyOrder)

-----------------------------------------------------------------------------
(* The entry points as a caller reaches them, with any JavaScript value,    *)
(* and the typed constructors of the other resource kinds                   *)

\* The strings of the model: Str(i) is the string Strings[i + 1]
Strings == <<"", "bufferView">>
Text(x) == Strings[x.v + 1]

\* ResourceCache.get, with its debug check of the argument
ResourceCache_get(s, cacheKey) ==
  IF ~typeOf(cacheKey, "string") THEN Throw(s, "DeveloperError: cacheKey")
  ELSE get(s, Text(cacheKey))

\* ResourceCache.load, with its debug checks of the arguments. resourceLoader is
\* a loader or Undefined; the cacheKey of every loader of the model is a
\* string, the empty one included, so that the check of line 711 passes.
ResourceCache_load(s, resourceLoader, keepResident) ==
  IF resourceLoader = Undefined THEN Throw(s, "DeveloperError: options.resourceLoader")
  ELSE load(s, resourceLoader, keepResident)

\* options.supportedImageFormats: the objects Obj(FormatsBase + i), i \in 1..3,
\* have the capability flags SupportedImageFormats[i]; the third lacks one
FormatsBase == 10
SupportedImageFormats ==
  << [webp |-> Bool(FALSE), s3tc |-> Bool(FALSE), pvrtc |-> Bool(FALSE), etc1 |-> Bool(FALSE)],
     [webp |-> Bool(TRUE), s3tc |-> Bool(FALSE), pvrtc |-> Bool(FALSE), etc1 |-> Bool(FALSE)],
     [webp |-> Bool(TRUE), s3tc |-> Bool(TRUE), pvrtc |-> Bool(FALSE), etc1 |-> Undef] >>
Formats(i) == Obj(FormatsBase + i)

\* supportedImageFormats.webp etc.: a property the value does not have is undefined
Field(x, name) ==
  IF x.t = "object" /\ x.v > FormatsBase THEN SupportedImageFormats[x.v - FormatsBase][name]
  ELSE Undef

\* The Key Deriver for the other kinds: a key per kind and per value of the
\* descriptor fields it is given that differ between the requests of the model
getSchemaCacheKey(d) == IF defined(d.schema) THEN "schema:embedded" ELSE "schema:external"
getEmbeddedBufferCacheKey(d) == "embeddedBuffer"
RaisingResource == Obj(7)
getExternalBufferCacheKey(d) ==
  IF d.resource = RaisingResource THEN "externalBuffer:raising" ELSE "externalBuffer"
getGltfCacheKey(d) == "gltf"
getDracoCacheKey(d) == "draco"
getIndexBufferCacheKey(d) == IF defined(d.draco) THEN "indexBuffer:draco" ELSE "indexBuffer"
getImageCacheKey(d) == "image"
getTextureCacheKey(d) ==
  IF Field(d.supportedImageFormats, "webp") = Bool(TRUE) THEN "texture:webp" ELSE "texture"

\* The common tail of the typed constructors: get, and on a miss construct the
\* loader (with the supportedImageFormats it is given), load it and return it
GetOrLoad(s, cacheKey, supportedImageFormats, keepResident) ==
  LET s1 == get(s, cacheKey)
  IN IF s1.ret # Undefined THEN s1
     ELSE LET s2 == NewLoader(s1, cacheKey)
              resourceLoader == Len(s2.loaders)
              s3 == [s2 EXCEPT !.loaders[resourceLoader].supportedImageFormats =
                                  supportedImageFormats]
              s4 == load(s3, resourceLoader, keepResident.v = 1)
          IN IF Ok(s4) THEN [s4 EXCEPT !.ret = resourceLoader] ELSE s4

\* ResourceCache.loadSchema
loadSchema_AtLeastOne(s, options) ==
  LET schema == options.schema
      resource == options.resource
      keepResident == defaultValue(options.keepResident, Bool(FALSE))
  IN IF ~defined(schema) /\ ~defined(resource)
     THEN Throw(s, "One of options.schema and options.resource must be defined.")
     ELSE GetOrLoad(s, getSchemaCacheKey([schema |-> schema, resource |-> resource]),
                    Undef, keepResident)

loadSchema(s, options) ==
  LET schema == options.schema
      resource == options.resource
      keepResident == defaultValue(options.keepResident, Bool(FALSE))
  IN IF defined(schema) = defined(resource)
     THEN Throw(s, "One of options.schema and options.resource must be defined.")
     ELSE GetOrLoad(s, getSchemaCacheKey([schema |-> schema, resource |-> resource]),
                    Undef, keepResident)

\* ResourceCache.loadEmbeddedBuffer
loadEmbeddedBuffer_NoTypedArrayCheck(s, options) ==
  LET parentResource == options.parentResource
      bufferId == options.bufferId
      keepResident == defaultValue(options.keepResident, Bool(FALSE))
  IN IF ~typeOf(parentResource, "object") THEN Throw(s, "DeveloperError: options.parentResource")
     ELSE IF ~typeOf(bufferId, "number") THEN Throw(s, "DeveloperError: options.bufferId")
     ELSE GetOrLoad(s, getEmbeddedBufferCacheKey([parentResource |-> parentResource,
                                                  bufferId |-> bufferId]),
                    Undef, keepResident)

loadEmbeddedBuffer(s, options) ==
  LET parentResource == options.parentResource
      bufferId == options.bufferId
      typedArray == options.typedArray
      keepResident == defaultValue(options.keepResident, Bool(FALSE))
  IN IF ~typeOf(parentResource, "object") THEN Throw(s, "DeveloperError: options.parentResource")
     ELSE IF ~typeOf(bufferId, "number") THEN Throw(s, "DeveloperError: options.bufferId")
     ELSE IF ~typeOf(typedArray, "object") THEN Throw(s, "DeveloperError: options.typedArray")
     ELSE GetOrLoad(s, getEmbeddedBufferCacheKey([parentResource |-> parentResource,
                                                  bufferId |-> bufferId]),
                    Undef, keepResident)

\* ResourceCache.loadExternalBuffer
loadExternalBuffer(s, options) ==
  LET resource == options.resource
      keepResident == defaultValue(options.keepResident, Bool(FALSE))
  IN IF ~typeOf(resource, "object") THEN Throw(s, "DeveloperError: options.resource")
     ELSE GetOrLoad(s, getExternalBufferCacheKey([resource |-> resource]),
                    Undef, keepResident)

\* ResourceCache.loadGltf
loadGltf(s, options) ==
  LET gltfResource == options.gltfResource
      baseResource == options.baseResource
      keepResident == defaultValue(options.keepResident, Bool(FALSE))
  IN IF ~typeOf(gltfResource, "object") THEN Throw(s, "DeveloperError: options.gltfResource")
     ELSE IF ~typeOf(baseResource, "object") THEN Throw(s, "DeveloperError: options.baseResource")
     ELSE GetOrLoad(s, getGltfCacheKey([gltfResource |-> gltfResource]),
                    Undef, keepResident)

\* ResourceCache.loadDraco
loadDraco(s, options) ==
  LET gltf == options.gltf
      draco == options.draco
      gltfResource == options.gltfResource
      baseResource == options.baseResource
      keepResident == defaultValue(options.keepResident, Bool(FALSE))
  IN IF ~typeOf(gltf, "object") THEN Throw(s, "DeveloperError: options.gltf")
     ELSE IF ~typeOf(draco, "object") THEN Throw(s, "DeveloperError: options.draco")
     ELSE IF ~typeOf(gltfResource, "object") THEN Throw(s, "DeveloperError: options.gltfResource")
     ELSE IF ~typeOf(baseResource, "object") THEN Throw(s, "DeveloperError: options.baseResource")
     ELSE GetOrLoad(s, getDracoCacheKey([gltf |-> gltf, draco |-> draco,
                                         gltfResource |-> gltfResource,
                                         baseResource |-> baseResource]),
                    Undef, keepResident)

\* ResourceCache.loadIndexBuffer
loadIndexBuffer(s, options) ==
  LET gltf == options.gltf
      accessorId == options.accessorId
      gltfResource == options.gltfResource
      baseResource == options.baseResource
      draco == options.draco
      keepResident == defaultValue(options.keepResident, Bool(FALSE))
  IN IF ~typeOf(gltf, "object") THEN Throw(s, "DeveloperError: options.gltf")
     ELSE IF ~typeOf(accessorId, "number") THEN Throw(s, "DeveloperError: options.accessorId")
     ELSE IF ~typeOf(gltfResource, "object") THEN Throw(s, "DeveloperError: options.gltfResource")
     ELSE IF ~typeOf(baseResource, "object") THEN Throw(s, "DeveloperError: options.baseResource")
     ELSE GetOrLoad(s, getIndexBufferCacheKey([gltf |-> gltf, accessorId |-> accessorId,
                                               gltfResource |-> gltfResource,
                                               baseResource |-> baseResource,
                                               draco |-> draco]),
                    Undef, keepResident)

\* The checks that loadImage and loadTexture make of the capability flags
FormatsError(s, supportedImageFormats) ==
  IF ~typeOf(Field(supportedImageFormats, "webp"), "boolean")
  THEN Throw(s, "DeveloperError: options.supportedImageFormats.webp")
  ELSE IF ~typeOf(Field(supportedImageFormats, "s3tc"), "boolean")
  THEN Throw(s, "DeveloperError: options.supportedImageFormats.s3tc")
  ELSE IF ~typeOf(Field(supportedImageFormats, "pvrtc"), "boolean")
  THEN Throw(s, "DeveloperError: options.supportedImageFormats.pvrtc")
  ELSE IF ~typeOf(Field(supportedImageFormats, "etc1"), "boolean")
  THEN Throw(s, "DeveloperError: options.supportedImageFormats.etc1")
  ELSE s

\* ResourceCache.loadImage
loadImage(s, options) ==
  LET gltf == options.gltf
      imageId == options.imageId
      gltfResource == options.gltfResource
      baseResource == options.baseResource
      supportedImageFormats == defaultValue(options.supportedImageFormats, Obj(0))
      keepResident == defaultValue(options.keepResident, Bool(FALSE))
  IN IF ~typeOf(gltf, "object") THEN Throw(s, "DeveloperError: options.gltf")
     ELSE IF ~typeOf(imageId, "number") THEN Throw(s, "DeveloperError: options.imageId")
     ELSE IF ~typeOf(gltfResource, "object") THEN Throw(s, "DeveloperError: options.gltfResource")
     ELSE IF ~typeOf(baseResource, "object") THEN Throw(s, "DeveloperError: options.baseResource")
     ELSE IF ~Ok(FormatsError(s, supportedImageFormats))
          THEN FormatsError(s, supportedImageFormats)
     ELSE GetOrLoad(s, getImageCacheKey([gltf |-> gltf, imageId |-> imageId,
                                         gltfResource |-> gltfResource,
                                         baseResource |-> baseResource]),
                    supportedImageFormats, keepResident)

\* ResourceCache.loadTexture
loadTexture(s, options) ==
  LET gltf == options.gltf
      textureInfo == options.textureInfo
      gltfResource == options.gltfResource
      baseResource == options.baseResource
      supportedImageFormats == defaultValue(options.supportedImageFormats, Obj(0))
      keepResident == defaultValue(options.keepResident, Bool(FALSE))
  IN IF ~typeOf(gltf, "object") THEN Throw(s, "DeveloperError: options.gltf")
     ELSE IF ~typeOf(textureInfo, "object") THEN Throw(s, "DeveloperError: options.textureInfo")
     ELSE IF ~typeOf(gltfResource, "object") THEN Throw(s, "DeveloperError: options.gltfResource")
     ELSE IF ~typeOf(baseResource, "object") THEN Throw(s, "DeveloperError: options.baseResource")
     ELSE IF ~Ok(FormatsError(s, supportedImageFormats))
          THEN FormatsError(s, supportedImageFormats)
     ELSE GetOrLoad(s, getTextureCacheKey([gltf |-> gltf, textureInfo |-> textureInfo,
                                           gltfResource |-> gltfResource,
                                           baseResource |-> baseResource,
                                           supportedImageFormats |-> supportedImageFormats]),
                    supportedImageFormats, keepResident)

-----------------------------------------------------------------------------
(* preproces3DTileContent (src/Source/Scene/preprocess3DTileContent.js)      *)

\* Cesium3DTileContentType: the content types the function returns, and the magics
\* Cesium3DTileContentType.isBinaryFormat answers true for
EXTERNAL_TILESET == "externalTileset"
GLTF == "gltf"
BinaryFormats == {"b3dm", "i3dm", "cmpt", "pnts", "vctr", "geom", "glb", "subt"}
isBinaryFormat(contentType) == contentType \in BinaryFormats

\* What getJsonFromTypedArray makes of the bytes: a parsed object with its two properties
\* the function reads, or nothing when the bytes are not JSON
Json(geometricError, asset) ==
  [parsed |-> TRUE, geometricError |-> geometricError, asset |-> asset]
NoJson == [parsed |-> FALSE, geometricError |-> Undef, asset |-> Undef]

\* An array buffer: the four characters getMagic reads and the JSON the bytes hold
Payload(magic, json) == [magic |-> magic, json |-> json]
NoPayload == Payload("undefined", NoJson)

getMagic(uint8Array) == uint8Array.magic

TileContent(contentType, binaryPayload, jsonPayload) ==
  [contentType |-> contentType, binaryPayload |-> binaryPayload,
   jsonPayload |-> jsonPayload, thrown |-> "none"]
TileError(e) ==
  [contentType |-> "undefined", binaryPayload |-> NoPayload, jsonPayload |-> NoJson,
   thrown |-> e]

\* getJsonContent: the parsed JSON, or RuntimeError when parsing throws
getJsonContent(arrayBuffer) ==
  IF arrayBuffer.json.parsed
  THEN [thrown |-> "none", json |-> arrayBuffer.json]
  ELSE [thrown |-> "RuntimeError: Invalid tile content.", json |-> NoJson]

\* a variant that looks at asset before geometricError
preproces3DTileContent_AssetFirst(arrayBuffer) ==
  LET uint8Array == arrayBuffer
      magic == getMagic(uint8Array)
      contentIdentifier == IF magic = "glTF" THEN "glb" ELSE magic
      parsed == getJsonContent(arrayBuffer)
      json == parsed.json
  IN IF isBinaryFormat(contentIdentifier)
     THEN TileContent(contentIdentifier, uint8Array, NoJson)
     ELSE IF parsed.thrown # "none" THEN TileError(parsed.thrown)
     ELSE IF defined(json.asset) THEN TileContent(GLTF, NoPayload, json)
     ELSE IF defined(json.geometricError)
          THEN TileContent(EXTERNAL_TILESET, NoPayload, json)
     ELSE TileError("RuntimeError: Invalid tile content.")

preproces3DTileContent(arrayBuffer) ==
  LET uint8Array == arrayBuffer
      magic == getMagic(uint8Array)
      contentIdentifier == IF magic = "glTF" THEN "glb" ELSE magic
      parsed == getJsonContent(arrayBuffer)
      json == parsed.json
  IN IF isBinaryFormat(contentIdentifier)
     THEN TileContent(contentIdentifier, uint8Array, NoJson)
     ELSE IF parsed.thrown # "none" THEN TileError(parsed.thrown)
     ELSE IF defined(json.geometricError)
          THEN TileContent(EXTERNAL_TILESET, NoPayload, json)
     ELSE IF defined(json.asset) THEN TileContent(GLTF, NoPayload, json)
     ELSE TileError("RuntimeError: Invalid tile content.")

NoTile == [payload |-> NoPayload, result |-> TileError("none")]

-----------------------------------------------------------------------------
(* EllipsoidGeometry (src/Source/Core/EllipsoidGeometry.js, lines 1-233):    *)
(* the constructor, pack and unpack.  A JavaScript number x is the value    *)
(* Num(2x), so that the halves Math.round decides on are numbers too.       *)

Number(n) == Num(2 * n)
AndAHalf(n) == Num(2 * n + 1)
Math_round(x) == Num(((x.v + 1) \div 2) * 2)
lessThan(x, n) == x.v < 2 * n

\* CesiumMath.PI and CesiumMath.TWO_PI, to the integer below
PI == Number(3)
TWO_PI == Number(6)

\* Cartesian3 and VertexFormat with their clone / pack / unpack
Cartesian3(x, y, z) == [t |-> "object", x |-> x, y |-> y, z |-> z]
Cartesian3_packedLength == 3
Cartesian3_pack(value, array, startingIndex) ==
  [array EXCEPT ![startingIndex] = value.x, ![startingIndex + 1] = value.y,
                ![startingIndex + 2] = value.z]
Cartesian3_unpack(array, startingIndex) ==
  Cartesian3(array[startingIndex], array[startingIndex + 1], array[startingIndex + 2])

VertexFormat(position, normal, st, tangent, bitangent, color) ==
  [t |-> "object", position |-> position, normal |-> normal, st |-> st,
   tangent |-> tangent, bitangent |-> bitangent, color |-> color]
VertexFormat_DEFAULT == VertexFormat(TRUE, TRUE, TRUE, FALSE, FALSE, FALSE)
VertexFormat_POSITION_ONLY == VertexFormat(TRUE, FALSE, FALSE, FALSE, FALSE, FALSE)
VertexFormat_packedLength == 6
Flag(b) == IF b THEN Number(1) ELSE Number(0)
VertexFormat_pack(value, array, startingIndex) ==
  [array EXCEPT ![startingIndex] = Flag(value.position),
                ![startingIndex + 1] = Flag(value.normal),
                ![startingIndex + 2] = Flag(value.st),
                ![startingIndex + 3] = Flag(value.tangent),
                ![startingIndex + 4] = Flag(value.bitangent),
                ![startingIndex + 5] = Flag(value.color)]
VertexFormat_unpack(array, startingIndex) ==
  VertexFormat(array[startingIndex] = Number(1), array[startingIndex + 1] = Number(1),
               array[startingIndex + 2] = Number(1), array[startingIndex + 3] = Number(1),
               array[startingIndex + 4] = Number(1), array[startingIndex + 5] = Number(1))

defaultRadii == Cartesian3(Number(1), Number(1), Number(1))

\* The outcome of a constructor / pack / unpack call: an error, or the object it returns
Returned(value) == [thrown |-> "none", ret |-> value]
Raised(e) == [thrown |-> e, ret |-> Undef]

Geometry(radii, innerRadii, minimumClock, maximumClock, minimumCone, maximumCone, stackPartitions, slicePartitions, vertexFormat, offsetAttribute) ==
  [t |-> "object", radii |-> radii, innerRadii |-> innerRadii,
   minimumClock |-> minimumClock, maximumClock |-> maximumClock,
   minimumCone |-> minimumCone, maximumCone |-> maximumCone,
   stackPartitions |-> stackPartitions, slicePartitions |-> slicePartitions,
   vertexFormat |-> vertexFormat, offsetAttribute |-> offsetAttribute]

\* new EllipsoidGeometry(options)
EllipsoidGeometry(options) ==
  LET radii == defaultValue(options.radii, defaultRadii)
      innerRadii == defaultValue(options.innerRadii, radii)
      minimumClock == defaultValue(options.minimumClock, Number(0))
      maximumClock == defaultValue(options.maximumClock, TWO_PI)
      minimumCone == defaultValue(options.minimumCone, Number(0))
      maximumCone == defaultValue(options.maximumCone, PI)
      stackPartitions == Math_round(defaultValue(options.stackPartitions, Number(64)))
      slicePartitions == Math_round(defaultValue(options.slicePartitions, Number(64)))
      vertexFormat == defaultValue(options.vertexFormat, VertexFormat_DEFAULT)
  IN IF lessThan(slicePartitions, 3)
     THEN Raised("DeveloperError: options.slicePartitions cannot be less than three.")
     ELSE IF lessThan(stackPartitions, 3)
     THEN Raised("DeveloperError: options.stackPartitions cannot be less than three.")
     ELSE Returned(Geometry(radii, innerRadii, minimumClock, maximumClock, minimumCone,
                            maximumCone, stackPartitions, slicePartitions, vertexFormat,
                            options.offsetAttribute))

EllipsoidGeometry_packedLength == 2 * Cartesian3_packedLength + VertexFormat_packedLength + 7

\* A JavaScript array: its elements by index
Array(elements) == [t |-> "object", at |-> elements]
Index(startingIndex) == startingIndex.v \div 2

\* a variant of pack that stores an undefined offsetAttribute as it is
pack_NoSentinel(value, array, startingIndex) ==
  IF ~defined(value) THEN Raised("DeveloperError: value is required")
  ELSE IF ~defined(array) THEN Raised("DeveloperError: array is required")
  ELSE
    LET i0 == Index(defaultValue(startingIndex, Number(0)))
        a1 == Cartesian3_pack(value.radii, array.at, i0)
        i1 == i0 + Cartesian3_packedLength
        a2 == Cartesian3_pack(value.innerRadii, a1, i1)
        i2 == i1 + Cartesian3_packedLength
        a3 == VertexFormat_pack(value.vertexFormat, a2, i2)
        i3 == i2 + VertexFormat_packedLength
    IN Returned(Array([a3 EXCEPT ![i3] = value.minimumClock,
                                 ![i3 + 1] = value.maximumClock,
                                 ![i3 + 2] = value.minimumCone,
                                 ![i3 + 3] = value.maximumCone,
                                 ![i3 + 4] = value.stackPartitions,
                                 ![i3 + 5] = value.slicePartitions,
                                 ![i3 + 6] = value.offsetAttribute]))

\* EllipsoidGeometry.pack(value, array, startingIndex)
pack(value, array, startingIndex) ==
  IF ~defined(value) THEN Raised("DeveloperError: value is required")
  ELSE IF ~defined(array) THEN Raised("DeveloperError: array is required")
  ELSE
    LET i0 == Index(defaultValue(startingIndex, Number(0)))
        a1 == Cartesian3_pack(value.radii, array.at, i0)
        i1 == i0 + Cartesian3_packedLength
        a2 == Cartesian3_pack(value.innerRadii, a1, i1)
        i2 == i1 + Cartesian3_packedLength
        a3 == VertexFormat_pack(value.vertexFormat, a2, i2)
        i3 == i2 + VertexFormat_packedLength
    IN Returned(Array([a3 EXCEPT ![i3] = value.minimumClock,
                                 ![i3 + 1] = value.maximumClock,
                                 ![i3 + 2] = value.minimumCone,
                                 ![i3 + 3] = value.maximumCone,
                                 ![i3 + 4] = value.stackPartitions,
                                 ![i3 + 5] = value.slicePartitions,
                                 ![i3 + 6] = defaultValue(value.offsetAttribute,
                                                          Number(-1))]))

\* EllipsoidGeometry.unpack(array, startingIndex, result)
unpack(array, startingIndex, result) ==
  IF ~defined(array) THEN Raised("DeveloperError: array is required")
  ELSE
    LET i0 == Index(defaultValue(startingIndex, Number(0)))
        radii == Cartesian3_unpack(array.at, i0)
        i1 == i0 + Cartesian3_packedLength
        innerRadii == Cartesian3_unpack(array.at, i1)
        i2 == i1 + Cartesian3_packedLength
        vertexFormat == VertexFormat_unpack(array.at, i2)
        i3 == i2 + VertexFormat_packedLength
        minimumClock == array.at[i3]
        maximumClock == array.at[i3 + 1]
        minimumCone == array.at[i3 + 2]
        maximumCone == array.at[i3 + 3]
        stackPartitions == array.at[i3 + 4]
        slicePartitions == array.at[i3 + 5]
        offsetAttribute == array.at[i3 + 6]
        decoded == IF offsetAttribute = Number(-1) THEN Undef ELSE offsetAttribute
    IN IF ~defined(result)
       THEN EllipsoidGeometry([radii |-> radii, innerRadii |-> innerRadii,
                               vertexFormat |-> vertexFormat,
                               minimumClock |-> minimumClock,
                               maximumClock |-> maximumClock,
                               minimumCone |-> minimumCone,
                               maximumCone |-> maximumCone,
                               stackPartitions |-> stackPartitions,
                               slicePartitions |-> slicePartitions,
                               offsetAttribute |-> decoded])
       ELSE Returned([result EXCEPT !.radii = radii, !.innerRadii = innerRadii,
                                    !.vertexFormat = vertexFormat,
                                    !.minimumClock = minimumClock,
                                    !.maximumClock = maximumClock,
                                    !.minimumCone = minimumCone,
                                    !.maximumCone = maximumCone,
                                    !.stackPartitions = stackPartitions,
                                    !.slicePartitions = slicePartitions,
                                    !.offsetAttribute = decoded])

-----------------------------------------------------------------------------
(* The tile-content and geometry calls: preproces3DTileContent on a payload, *)
(* new EllipsoidGeometry(options), and pack / unpack of the geometry made    *)

MaxStart == 1   \* largest startingIndex handed to pack and unpack

ArrayLength == EllipsoidGeometry_packedLength + MaxStart + 1

\* The payloads: the binary tile formats, a binary glTF, JSON text, and other bytes
Magics == (BinaryFormats \ {"glb"}) \cup {"glTF", "{   ", "junk"}
Jsons ==
  {NoJson} \cup {Json(geometricError, asset) :
                   geometricError \in {Undef, Num(0)}, asset \in {Undef, Obj(1)}}
Payloads ==
  {Payload(magic, NoJson) : magic \in Magics \ {"{   "}}
    \cup {Payload("{   ", json) : json \in Jsons \ {NoJson}}

\* The options a geometry is constructed with
Partitions == {Undef, Number(2), AndAHalf(2), Number(3)}
GeometryOptions ==
  [radii : {Undef, Cartesian3(Number(3), Number(2), Number(1))},
   innerRadii : {Undef, Cartesian3(Number(1), Number(1), Number(1))},
   minimumClock : {Undef, Number(1)},
   maximumClock : {Undef},
   minimumCone : {Undef},
   maximumCone : {Undef},
   stackPartitions : Partitions,
   slicePartitions : Partitions,
   vertexFormat : {Undef, VertexFormat_POSITION_ONLY},
   offsetAttribute : {Undef, Number(0), Number(1)}]
EMPTY_OBJECT ==
  [radii |-> Undef, innerRadii |-> Undef, minimumClock |-> Undef, maximumClock |-> Undef,
   minimumCone |-> Undef, maximumCone |-> Undef, stackPartitions |-> Undef,
   slicePartitions |-> Undef, vertexFormat |-> Undef, offsetAttribute |-> Undef]

StartingIndexes == {Undef} \cup {Number(i) : i \in 0..MaxStart}

\* The array a caller hands to pack: long enough, and already holding values
FreshArray == Array([i \in 0..(ArrayLength - 1) |-> Number(7)])

\* The result object a caller hands to unpack: a geometry made with no options
ResultObject == EllipsoidGeometry(EMPTY_OBJECT).ret

NoGeo ==
  [op |-> "none", options |-> EMPTY_OBJECT, value |-> Undef, array |-> Undef,
   start |-> Undef, from |-> Undef, result |-> Undef, out |-> Raised("none")]

-----------------------------------------------------------------------------
(* The state machine *)

\* The key whose runs of calls are recorded: the buffer view of the scenarios, which
\* consumers request and the vertex-buffer loader acquires as its dependency
watch == "bufferView"

NoRun ==
  [kind |-> "none", n |-> 0, u |-> 0, loader |-> Undefined, built |-> 0, same |-> TRUE,
   base |-> 0, d0 |-> 0, fromLoads |-> FALSE, resident |-> FALSE]

NoCall == [op |-> "none", key |-> "-", ret |-> Undefined, thrown |-> "none", state |-> "-"]

Init ==
  /\ cacheEntries = <<>>
  /\ keyOrder = <<>>
  /\ loaders = <<>>
  /\ held = [l \in 1..MaxLoaders |-> 0]
  /\ lastCall = NoCall
  /\ run = NoRun
  /\ phase = "open"
  /\ tile = NoTile
  /\ geo = NoGeo

\* The machine state a handler starts from
Start == [cacheEntries |-> cacheEntries, keyOrder |-> keyOrder, loaders |-> loaders,
          thrown |-> "none", ret |-> Undefined]

Bounded(s) ==
  /\ Len(s.loaders) <= MaxLoaders
  /\ \A k \in DOMAIN s.cacheEntries : s.cacheEntries[k].referenceCount <= MaxRefs
  /\ \A l \in 1..Len(s.loaders) :
       s.loaders[l].loadCalls <= MaxCalls /\ s.loaders[l].destroyCalls <= MaxCalls

\* The handler's effects become the next state
Commit(s) ==
  /\ Bounded(s)
  /\ cacheEntries' = s.cacheEntries
  /\ keyOrder' = s.keyOrder
  /\ loaders' = s.loaders
  /\ UNCHANGED <<tile, geo>>

Called(op, key, s) ==
  lastCall' = [NoCall EXCEPT !.op = op, !.key = key, !.ret = s.ret, !.thrown = s.thrown]

\* A consumer makes a request and keeps the reference the call returned
Acquire(s) ==
  /\ phase = "open"
  /\ phase' = phase
  /\ IF Ok(s) /\ s.ret # Undefined
     THEN held[s.ret] < MaxRefs /\ held' = [held EXCEPT ![s.ret] = @ + 1]
     ELSE held' = held

Touched(s, k) ==
  \/ (k \in DOMAIN cacheEntries) # (k \in DOMAIN s.cacheEntries)
  \/ /\ k \in DOMAIN cacheEntries
     /\ k \in DOMAIN s.cacheEntries
     /\ cacheEntries[k] # s.cacheEntries[k]

\* Loader instances the handler constructed with key k
Built(s, k) ==
  Cardinality({l \in (Len(loaders) + 1)..Len(s.loaders) : s.loaders[l].cacheKey = k})

\* The run after a call that is neither a typed load nor an unload of the watched key
RunTouched(s) == IF Touched(s, watch) THEN NoRun ELSE run

\* The loader a typed load of the watched key returned inside the handler of a
\* request for cacheKey: to the consumer, or to the loader the handler constructed,
\* which acquired it as its dependency
TypedOn(s, cacheKey) ==
  IF ~Ok(s) THEN Undefined
  ELSE IF cacheKey = watch THEN s.ret
  ELSE IF Len(s.loaders) > Len(loaders) THEN s.loaders[s.ret].dep
  ELSE Undefined

\* The run after a request for cacheKey: a run of typed loads of the watched key
\* starts at a miss and goes on with every further typed load of the key
RunTyped(s, cacheKey) ==
  LET returned == TypedOn(s, cacheKey) IN
  IF returned # Undefined
  THEN IF watch \notin DOMAIN cacheEntries
       THEN [NoRun EXCEPT !.kind = "load", !.n = 1, !.loader = returned,
                          !.built = Built(s, watch),
                          !.resident = s.cacheEntries[watch].keepResident]
       ELSE IF run.kind = "load"
       THEN [run EXCEPT !.n = @ + 1, !.built = @ + Built(s, watch),
                        !.same = @ /\ returned = run.loader]
       ELSE NoRun
  ELSE RunTouched(s)

\* The loader passed to the unload of the watched key inside the handler of
\* unload(l): l itself, or the dependency l released in its destroy()
UnloadedOn(s, l) ==
  IF ~Ok(s) THEN Undefined
  ELSE IF loaders[l].cacheKey = watch THEN l
  ELSE IF s.loaders[l].destroyCalls > loaders[l].destroyCalls THEN loaders[l].dep
  ELSE Undefined

\* The run after unload(l): a run of unloads of the watched key's entry through its
\* own loader starts at the first unload and goes on with every further one
RunUnload(s, l) ==
  LET passed == UnloadedOn(s, l) IN
  IF /\ passed # Undefined
     /\ watch \in DOMAIN cacheEntries
     /\ cacheEntries[watch].resourceLoader = passed
  THEN IF run.kind = "unload" /\ run.loader = passed
       THEN [run EXCEPT !.u = @ + 1]
       ELSE [run EXCEPT !.kind = "unload", !.u = 1, !.loader = passed,
                        !.base = cacheEntries[watch].referenceCount,
                        !.d0 = loaders[passed].destroyCalls,
                        !.fromLoads = (run.kind = "load"),
                        !.resident = cacheEntries[watch].keepResident]
  ELSE RunTouched(s)

KeepResidentOptions == {Undef, Bool(TRUE)}

LoadBufferView ==
  \E bufferViewId \in {Num(0), Num(1)}, keepResident \in KeepResidentOptions :
    LET options == [BufferViewOptions EXCEPT !.bufferViewId = bufferViewId,
                                             !.keepResident = keepResident]
    IN \E s \in {loadBufferView(Start, options)} :
         /\ Commit(s)
         /\ Acquire(s)
         /\ Called("loadBufferView", "-", s)
         /\ run' = RunTyped(s, getBufferViewCacheKey(options))

LoadVertexBuffer ==
  \E bufferViewId \in {Num(0)}, draco \in {Undef},
     dracoAttributeSemantic \in {Undef, Str(1)}, keepResident \in KeepResidentOptions :
    LET options == [gltf |-> Gltf, gltfResource |-> Resource, baseResource |-> Resource,
                    bufferViewId |-> bufferViewId, draco |-> draco,
                    dracoAttributeSemantic |-> dracoAttributeSemantic,
                    keepResident |-> keepResident]
    IN \E s \in {loadVertexBuffer(Start, options)} :
         /\ Commit(s)
         /\ Acquire(s)
         /\ Called("loadVertexBuffer", "-", s)
         /\ run' = RunTyped(s, getVertexBufferCacheKey(options))

\* A consumer calls ResourceCache.get(cacheKey)
Get ==
  \E cacheKey \in CacheKeys :
    \E s \in {get(Start, cacheKey)} :
       /\ Commit(s)
       /\ Acquire(s)
       /\ Called("get", cacheKey, s)
       /\ run' = RunTouched(s)

\* A consumer constructs a loader of its own and calls ResourceCache.load
Load ==
  \E cacheKey \in CacheKeys, keepResident \in BOOLEAN :
    LET s0 == NewLoader(Start, cacheKey)
        resourceLoader == Len(s0.loaders)
        s1 == load(s0, resourceLoader, keepResident)
    IN \E s \in {IF Ok(s1) THEN [s1 EXCEPT !.ret = resourceLoader] ELSE s1} :
       /\ Commit(s)
       /\ Acquire(s)
       /\ Called("load", cacheKey, s)
       /\ run' = IF cacheKey = watch THEN RunTouched(s) ELSE RunTyped(s, cacheKey)

\* ResourceCache.unload(resourceLoader) with any loader object a consumer can have
UnloadCall(resourceLoader) ==
  \E s \in {unload(Start, resourceLoader)} :
     /\ Commit(s)
     /\ held' = IF Ok(s) /\ held[resourceLoader] > 0
                THEN [held EXCEPT ![resourceLoader] = @ - 1] ELSE held
     /\ lastCall' = [op |-> "unload", key |-> loaders[resourceLoader].cacheKey,
                      ret |-> Undefined, thrown |-> s.thrown,
                      state |-> loaders[resourceLoader].state]
     /\ run' = RunUnload(s, resourceLoader)
     /\ phase' = phase

Unload == \E resourceLoader \in 1..Len(loaders) : UnloadCall(resourceLoader)

\* A consumer releases a reference it holds
Release ==
  \E resourceLoader \in 1..Len(loaders) :
    held[resourceLoader] > 0 /\ UnloadCall(resourceLoader)

ClearForSpecs ==
  \E s \in {clearForSpecs(Start)} :
     /\ Commit(s)
     /\ held' = [l \in 1..MaxLoaders |-> 0]
     /\ Called("clearForSpecs", "-", s)
     /\ run' = RunTouched(s)
     /\ phase' = phase

\* A completion callback of a live loader: LOADING -> READY, or LOADING -> FAILED
LoaderFinish ==
  \E l \in 1..Len(loaders), state \in {"READY", "FAILED"} :
    /\ loaders[l].state = "LOADING"
    /\ loaders[l].destroyCalls = 0
    /\ loaders' = [loaders EXCEPT ![l].state = state]
    /\ lastCall' = [NoCall EXCEPT !.op = "finish"]
    /\ UNCHANGED <<cacheEntries, keyOrder, held, run, phase, tile, geo>>

\* Every call, with any argument
Next ==
  \/ LoadBufferView \/ LoadVertexBuffer
  \/ Get \/ Load \/ Unload \/ ClearForSpecs
  \/ LoaderFinish

Spec == Init /\ [][Next]_vars

\* Consumers that follow the protocol: they unload only references they hold
ProtocolNext ==
  \/ LoadBufferView \/ LoadVertexBuffer
  \/ Get \/ Load \/ Release
  \/ LoaderFinish

ProtocolSpec == Init /\ [][ProtocolNext]_vars

\* The consumers stop making requests; from then on they only release
Close ==
  /\ phase = "open"
  /\ phase' = "closing"
  /\ lastCall' = [NoCall EXCEPT !.op = "close"]
  /\ UNCHANGED <<cacheEntries, keyOrder, loaders, held, run, tile, geo>>

ReleasingNext ==
  \/ LoadBufferView \/ LoadVertexBuffer
  \/ Get \/ Load \/ Release
  \/ LoaderFinish \/ Close

\* Protocol-following consumers that release every reference they hold
ReleasingSpec == Init /\ [][ReleasingNext]_vars /\ WF_vars(Release)

-----------------------------------------------------------------------------
(* The descriptor machine: the entry points called with well-formed and     *)
(* malformed arguments. Every typed constructor is called with its          *)
(* well-formed descriptor and with each field of it replaced by a missing   *)
(* or wrong-typed value; get and load are called with the empty key too.    *)

MaxConstructed == 2
MaxShared == 2

\* A missing value, and a value of each of two types: every field has a value of a
\* wrong type among them
JsValues == {Undef, Obj(1), Num(0)}

Kinds == {"loadSchema", "loadEmbeddedBuffer", "loadExternalBuffer", "loadGltf",
          "loadBufferView", "loadDraco", "loadVertexBuffer", "loadIndexBuffer",
          "loadImage", "loadTexture"}

\* The well-formed descriptor of each kind
BaseOptions(kind) ==
  CASE kind = "loadSchema" ->
         [schema |-> Obj(3), resource |-> Undef, keepResident |-> Undef]
    [] kind = "loadEmbeddedBuffer" ->
         [parentResource |-> Resource, bufferId |-> Num(0), typedArray |-> Obj(4),
          keepResident |-> Undef]
    [] kind = "loadExternalBuffer" ->
         [resource |-> Resource, keepResident |-> Undef]
    [] kind = "loadGltf" ->
         [gltfResource |-> Resource, baseResource |-> Resource, keepResident |-> Undef]
    [] kind = "loadBufferView" -> BufferViewOptions
    [] kind = "loadDraco" ->
         [gltf |-> Gltf, draco |-> Obj(5), gltfResource |-> Resource,
          baseResource |-> Resource, keepResident |-> Undef]
    [] kind = "loadVertexBuffer" ->
         [gltf |-> Gltf, gltfResource |-> Resource, baseResource |-> Resource,
          bufferViewId |-> Num(0), draco |-> Undef, dracoAttributeSemantic |-> Undef,
          keepResident |-> Undef]
    [] kind = "loadIndexBuffer" ->
         [gltf |-> Gltf, accessorId |-> Num(0), gltfResource |-> Resource,
          baseResource |-> Resource, draco |-> Undef, keepResident |-> Undef]
    [] kind = "loadImage" ->
         [gltf |-> Gltf, imageId |-> Num(0), gltfResource |-> Resource,
          baseResource |-> Resource, supportedImageFormats |-> Formats(1),
          keepResident |-> Undef]
    [] kind = "loadTexture" ->
         [gltf |-> Gltf, textureInfo |-> Obj(6), gltfResource |-> Resource,
          baseResource |-> Resource, supportedImageFormats |-> Formats(1),
          keepResident |-> Undef]

ValuesOf(field) ==
  IF field = "supportedImageFormats" THEN JsValues \cup {Formats(i) : i \in 1..3}
  ELSE IF field = "keepResident" THEN {Undef}
  ELSE JsValues

\* The second well-formed descriptor of the kinds that have two forms: a schema
\* given by its resource, a vertex buffer given by its Draco extension
OtherOptions(kind) ==
  CASE kind = "loadSchema" ->
         {[schema |-> Undef, resource |-> Resource, keepResident |-> Undef]}
    [] kind = "loadVertexBuffer" ->
         {[gltf |-> Gltf, gltfResource |-> Resource, baseResource |-> Resource,
           bufferViewId |-> Undef, draco |-> Obj(5), dracoAttributeSemantic |-> Str(1),
           keepResident |-> Undef]}
    [] OTHER -> {}

\* The descriptors a consumer passes: the well-formed ones, and each with one
\* field replaced by another value
Requests(kind) ==
  UNION {{base} \cup
         UNION {{[base EXCEPT ![field] = v] : v \in ValuesOf(field)} :
                  field \in DOMAIN base} :
           base \in {BaseOptions(kind)} \cup OtherOptions(kind)}

TypedLoad(kind, s, options) ==
  CASE kind = "loadSchema" -> loadSchema(s, options)
    [] kind = "loadEmbeddedBuffer" -> loadEmbeddedBuffer(s, options)
    [] kind = "loadExternalBuffer" -> loadExternalBuffer(s, options)
    [] kind = "loadGltf" -> loadGltf(s, options)
    [] kind = "loadBufferView" -> loadBufferView(s, options)
    [] kind = "loadDraco" -> loadDraco(s, options)
    [] kind = "loadVertexBuffer" -> loadVertexBuffer(s, options)
    [] kind = "loadIndexBuffer" -> loadIndexBuffer(s, options)
    [] kind = "loadImage" -> loadImage(s, options)
    [] kind = "loadTexture" -> loadTexture(s, options)

DescriptorBounded(s) ==
  /\ Len(s.loaders) <= MaxConstructed
  /\ \A k \in DOMAIN s.cacheEntries : s.cacheEntries[k].referenceCount <= MaxShared

DescriptorCommit(op, key, s) ==
  /\ DescriptorBounded(s)
  /\ cacheEntries' = s.cacheEntries
  /\ keyOrder' = s.keyOrder
  /\ loaders' = s.loaders
  /\ UNCHANGED <<tile, geo>>
  /\ Called(op, key, s)
  /\ UNCHANGED <<held, run, phase>>

\* A consumer calls the typed constructor of a kind with one of its descriptors
RequestSchema ==
  \E options \in Requests("loadSchema") :
    \E s \in {loadSchema(Start, options)} : DescriptorCommit("loadSchema", "-", s)

RequestEmbeddedBuffer ==
  \E options \in Requests("loadEmbeddedBuffer") :
    \E s \in {loadEmbeddedBuffer(Start, options)} : DescriptorCommit("loadEmbeddedBuffer", "-", s)

RequestExternalBuffer ==
  \E options \in Requests("loadExternalBuffer") :
    \E s \in {loadExternalBuffer(Start, options)} : DescriptorCommit("loadExternalBuffer", "-", s)

RequestGltf ==
  \E options \in Requests("loadGltf") :
    \E s \in {loadGltf(Start, options)} : DescriptorCommit("loadGltf", "-", s)

RequestBufferView ==
  \E options \in Requests("loadBufferView") :
    \E s \in {loadBufferView(Start, options)} : DescriptorCommit("loadBufferView", "-", s)

RequestDraco ==
  \E options \in Requests("loadDraco") :
    \E s \in {loadDraco(Start, options)} : DescriptorCommit("loadDraco", "-", s)

RequestVertexBuffer ==
  \E options \in Requests("loadVertexBuffer") :
    \E s \in {loadVertexBuffer(Start, options)} : DescriptorCommit("loadVertexBuffer", "-", s)

RequestIndexBuffer ==
  \E options \in Requests("loadIndexBuffer") :
    \E s \in {loadIndexBuffer(Start, options)} : DescriptorCommit("loadIndexBuffer", "-", s)

RequestImage ==
  \E options \in Requests("loadImage") :
    \E s \in {loadImage(Start, options)} : DescriptorCommit("loadImage", "-", s)

RequestTexture ==
  \E options \in Requests("loadTexture") :
    \E s \in {loadTexture(Start, options)} : DescriptorCommit("loadTexture", "-", s)

\* A consumer calls ResourceCache.get with any value
GetAny ==
  \E cacheKey \in {Undef, Num(0), Str(0), Str(1)} :
    \E s \in {ResourceCache_get(Start, cacheKey)} :
       DescriptorCommit("get", IF typeOf(cacheKey, "string") THEN Text(cacheKey) ELSE "-", s)

\* A consumer calls ResourceCache.load with a loader it constructed, whose
\* cacheKey may be the empty string, or with no loader
LoadAny ==
  \/ \E cacheKey \in {Text(Str(0)), Text(Str(1))}, keepResident \in BOOLEAN :
       LET s0 == NewLoader(Start, cacheKey)
           resourceLoader == Len(s0.loaders)
           s1 == ResourceCache_load(s0, resourceLoader, keepResident)
       IN \E s \in {IF Ok(s1) THEN [s1 EXCEPT !.ret = resourceLoader] ELSE s1} :
            DescriptorCommit("load", cacheKey, s)
  \/ \E s \in {ResourceCache_load(Start, Undefined, FALSE)} :
       DescriptorCommit("load", "-", s)

DescriptorNext ==
  \/ RequestSchema \/ RequestEmbeddedBuffer \/ RequestExternalBuffer \/ RequestGltf
  \/ RequestBufferView \/ RequestDraco \/ RequestVertexBuffer \/ RequestIndexBuffer
  \/ RequestImage \/ RequestTexture
  \/ GetAny \/ LoadAny

DescriptorSpec == Init /\ [][DescriptorNext]_vars

-----------------------------------------------------------------------------
(* The tile-content and geometry machine: each call is one step *)

CacheIdle == UNCHANGED <<cacheEntries, keyOrder, loaders, held, lastCall, run, phase>>

\* The two files share no state: a behaviour exercises one of them
Preprocess ==
  \E arrayBuffer \in Payloads :
    /\ geo = NoGeo
    /\ tile' = [payload |-> arrayBuffer, result |-> preproces3DTileContent(arrayBuffer)]
    /\ UNCHANGED geo
    /\ CacheIdle

\* A behaviour follows one geometry from its construction on
Construct ==
  \E options \in GeometryOptions :
    \E r \in {EllipsoidGeometry(options)} :
      /\ geo.op = "none"
      /\ tile = NoTile
      /\ geo' = [NoGeo EXCEPT !.op = "new", !.options = options, !.value = r.ret, !.out = r]
      /\ UNCHANGED tile
      /\ CacheIdle

Pack ==
  \E array \in {Undef, FreshArray}, startingIndex \in StartingIndexes :
    \E r \in {pack(geo.value, array, startingIndex)} :
      /\ geo.op # "none"
      /\ geo' = [geo EXCEPT !.op = "pack", !.array = r.ret, !.start = startingIndex,
                            !.from = Undef, !.result = Undef, !.out = r]
      /\ UNCHANGED tile
      /\ CacheIdle

\* unpack reads the array where pack wrote it
Unpack ==
  \E array \in {Undef, geo.array}, startingIndex \in StartingIndexes,
     result \in {Undef, ResultObject} :
    \E r \in {unpack(array, startingIndex, result)} :
      /\ defined(geo.array)
      /\ Index(defaultValue(startingIndex, Number(0)))
           = Index(defaultValue(geo.start, Number(0)))
      /\ geo' = [geo EXCEPT !.op = "unpack", !.from = startingIndex, !.result = result,
                            !.out = r]
      /\ UNCHANGED tile
      /\ CacheIdle

UtilityNext == Preprocess \/ Construct \/ Pack \/ Unpack

UtilitySpec == Init /\ [][UtilityNext]_vars

-----------------------------------------------------------------------------
(* External buffers, one of a resource whose loader raises in load()        *)

\* A consumer calls ResourceCache.loadExternalBuffer
LoadExternalBuffer ==
  \E resource \in {Resource, RaisingResource}, keepResident \in KeepResidentOptions :
    \E s \in {loadExternalBuffer(Start, [resource |-> resource,
                                          keepResident |-> keepResident])} :
      /\ Commit(s)
      /\ Acquire(s)
      /\ Called("loadExternalBuffer", getExternalBufferCacheKey([resource |-> resource]), s)
      /\ run' = RunTouched(s)

RaisingNext == LoadExternalBuffer \/ Unload \/ LoaderFinish

RaisingSpec == Init /\ [][RaisingNext]_vars

-----------------------------------------------------------------------------
(* Deduplication and the count of a run of calls on one key *)

Present(k) == k \in DOMAIN cacheEntries

\* C1: after N >= 1 typed loads whose descriptors derive the same key, with no
\* unload in between, one loader instance has been constructed, its load() has
\* been invoked once, every call returned that instance, and the entry's
\* referenceCount is N.
C1_TypedLoadsShareOneLoader ==
  run.kind = "load" =>
    /\ Present(watch)
    /\ run.built = 1
    /\ run.same
    /\ cacheEntries[watch].resourceLoader = run.loader
    /\ loaders[run.loader].loadCalls = 1
    /\ cacheEntries[watch].referenceCount = run.n

C1_Witness ==
  /\ run.kind = "load"
  /\ run.n = MaxRefs
  /\ lastCall.op = "loadBufferView"
  /\ cacheEntries[watch].referenceCount = MaxRefs

\* C2: N unloads of a non-keepResident entry whose referenceCount is N bring
\* the count to 0, call destroy() on its loader once, on the N-th unload and
\* not before, and leave the key absent from the registry.
C2_UnloadsToZeroDestroyOnce ==
  run.kind = "unload" /\ ~run.resident =>
    /\ run.u <= run.base
    /\ run.u < run.base =>
         /\ Present(watch)
         /\ cacheEntries[watch].referenceCount = run.base - run.u
         /\ loaders[run.loader].destroyCalls = run.d0
    /\ run.u = run.base =>
         /\ ~Present(watch)
         /\ loaders[run.loader].destroyCalls = run.d0 + 1

C2_Witness ==
  /\ run.kind = "unload"
  /\ ~run.resident
  /\ run.base = MaxRefs
  /\ run.u = run.base
  /\ ~Present(watch)
  /\ loaders[run.loader].destroyCalls = 1

-----------------------------------------------------------------------------
(* One loader per key, counts and holders, dependencies *)

Instances == 1..Len(loaders)

\* load() has been invoked on the loader and destroy() has not
Live(l) == loaders[l].loadCalls > 0 /\ loaders[l].destroyCalls = 0

\* The loader is the one its key's entry owns
Registered(l) ==
  /\ Present(loaders[l].cacheKey)
  /\ cacheEntries[loaders[l].cacheKey].resourceLoader = l

\* The loaders that hold a counted reference to loader d as their dependency
Dependents(d) == {a \in Instances : loaders[a].dep = d}

C4_CountEqualsHolders ==
  /\ \A k \in DOMAIN cacheEntries :
       LET l == cacheEntries[k].resourceLoader
       IN cacheEntries[k].referenceCount = held[l] + Cardinality(Dependents(l))
  /\ \A l \in Instances :
       held[l] > 0 \/ Dependents(l) # {} => Registered(l)

C4_Witness ==
  \E l \in Instances :
    /\ Registered(l)
    /\ held[l] = 1
    /\ Cardinality(Dependents(l)) = 1
    /\ cacheEntries[loaders[l].cacheKey].referenceCount = 2
    /\ lastCall.op = "unload"

\* C5: a dependency D that a loader A acquired through the cache is not destroyed
\* and its entry is not removed while A has not been destroyed, nor while a
\* consumer holds an unreleased reference to D: a destroyed D has no live dependent.
C5_DependencyOutlivesDependents ==
  \A d \in Instances :
    (\E a \in Dependents(d) : loaders[a].destroyCalls = 0) \/ held[d] > 0 =>
      /\ loaders[d].destroyCalls = 0
      /\ Registered(d)

C5_Witness ==
  \E d \in Instances, a \in Instances :
    /\ a \in Dependents(d)
    /\ Live(a) /\ Registered(a)
    /\ Live(d) /\ Registered(d)
    /\ held[d] = 0
    /\ cacheEntries[loaders[d].cacheKey].referenceCount = 1
    /\ lastCall.op = "unload" /\ lastCall.key = loaders[d].cacheKey

-----------------------------------------------------------------------------
(* Release: partial unloads, teardown of a dependent, eventual removal *)

\* After run.u unloads of the entry that run.n typed loads acquired: fewer
\* unloads than loads leave the entry and its loader alone, the last one destroys
\* the loader and removes the entry
UnloadsAfterLoads ==
  /\ run.u <= run.n
  /\ run.u < run.n =>
       /\ Present(watch)
       /\ cacheEntries[watch].resourceLoader = run.loader
       /\ cacheEntries[watch].referenceCount = run.n - run.u
       /\ loaders[run.loader].destroyCalls = 0
  /\ run.u = run.n =>
       /\ ~Present(watch)
       /\ loaders[run.loader].destroyCalls = 1

\* C7, as stated: when k consumers acquired the same key through typed loads, any
\* m < k unloads leave the entry present with the same loader, referenceCount
\* k - m and destroy() not invoked, and the k-th unload destroys the loader and
\* removes the entry.
C7_Original ==
  run.kind = "unload" /\ run.fromLoads => UnloadsAfterLoads

\* C7, amended: the same for an entry that was registered without keepResident.
C7_PartialUnloadsKeepEntry ==
  run.kind = "unload" /\ run.fromLoads /\ ~run.resident => UnloadsAfterLoads

C7_Witness ==
  /\ run.kind = "unload" /\ run.fromLoads /\ ~run.resident
  /\ run.n = MaxRefs
  /\ run.u = 1
  /\ cacheEntries[watch].referenceCount = MaxRefs - 1
  /\ Live(run.loader)

\* The loaders destroyed by the step, with the dependency they held before it
DestroyedWithDependency ==
  {a \in Instances : /\ loaders[a].dep # Undefined
                     /\ loaders'[a].destroyCalls = loaders[a].destroyCalls + 1}

\* The referenceCount of loader d's entry after the step, 0 when it is gone
CountAfter(d) ==
  IF loaders[d].cacheKey \in DOMAIN cacheEntries'
  THEN cacheEntries'[loaders[d].cacheKey].referenceCount
  ELSE 0

\* The step's unload destroyed loader a: its dependency's count is lower by
\* exactly one, and the dependency's entry is otherwise as it was, unless
\* `removed` holds, when the dependency is destroyed and its entry removed
ReleasedOnce(a, removed) ==
  LET d == loaders[a].dep
      k == loaders[d].cacheKey
  IN /\ Registered(d)
     /\ CountAfter(d) = cacheEntries[k].referenceCount - 1
     /\ loaders'[a].dep = Undefined
     /\ IF removed
        THEN /\ k \notin DOMAIN cacheEntries'
             /\ loaders'[d].destroyCalls = loaders[d].destroyCalls + 1
        ELSE /\ k \in DOMAIN cacheEntries'
             /\ cacheEntries'[k] = [cacheEntries[k] EXCEPT !.referenceCount = @ - 1]
             /\ loaders'[d].destroyCalls = loaders[d].destroyCalls

\* C8, as stated: when the last unload of a loader that acquired a dependency
\* during its load destroys it, in any load state, one unload is issued against
\* the dependency's entry: its referenceCount is lower by exactly one, and the
\* dependency is destroyed and removed if that made its count zero.
C8_Original ==
  [][lastCall'.op = "unload" =>
       \A a \in DestroyedWithDependency :
         ReleasedOnce(a, CountAfter(loaders[a].dep) = 0)]_vars

\* C8, amended: the dependency is destroyed and removed if that made its count
\* zero and its entry is not keepResident.
C8_DestroyReleasesDependencyOnce ==
  [][lastCall'.op = "unload" =>
       \A a \in DestroyedWithDependency :
         ReleasedOnce(a, /\ CountAfter(loaders[a].dep) = 0
                         /\ ~cacheEntries[loaders[loaders[a].dep].cacheKey].keepResident)]_vars

\* A vertex-buffer loader was released while LOADING and destroyed; the buffer
\* view it held stays, with the one reference a consumer holds
C8_Witness ==
  /\ lastCall = [NoCall EXCEPT !.op = "unload", !.key = "vertexBuffer", !.state = "LOADING"]
  /\ ~Present("vertexBuffer")
  /\ \E a \in Instances :
       /\ loaders[a].cacheKey = "vertexBuffer"
       /\ loaders[a].destroyCalls = 1
       /\ loaders[a].dep = Undefined
  /\ Present("bufferView")
  /\ cacheEntries["bufferView"].referenceCount = 1
  /\ held[cacheEntries["bufferView"].resourceLoader] = 1
  /\ Live(cacheEntries["bufferView"].resourceLoader)

\* The loader's entry is keepResident, or a loader whose entry is pinned holds
\* it as its dependency (fuel bounds the length of the chain)
RECURSIVE Pinned(_, _)
Pinned(l, fuel) ==
  /\ Registered(l)
  /\ \/ cacheEntries[loaders[l].cacheKey].keepResident
     \/ /\ fuel > 0
        /\ \E a \in Dependents(l) : Pinned(a, fuel - 1)

\* What is left is pinned: every entry is keepResident or held, directly or
\* through other loaders, by a keepResident loader; every other loader that was
\* loaded has been destroyed; without a keepResident entry the registry is empty
Drained ==
  /\ \A k \in DOMAIN cacheEntries : Pinned(cacheEntries[k].resourceLoader, MaxLoaders)
  /\ \A l \in Instances : Live(l) => Registered(l)
  /\ (\A k \in DOMAIN cacheEntries : ~cacheEntries[k].keepResident) => cacheEntries = <<>>

\* C6: when consumers release every reference they acquired and every loader's
\* destroy() unloads the dependencies it acquired, then eventually every entry
\* that is not keepResident and not held, directly or transitively, by a
\* keepResident loader has been removed and its loader destroyed; with no
\* keepResident entry the registry eventually becomes empty.
C6_EventuallyDrained == (phase = "closing") ~> Drained

\* Everything was released: a vertex-buffer loader and the buffer view it held
\* have been destroyed one after the other, and the registry is empty
C6_Witness ==
  /\ phase = "closing"
  /\ lastCall.op = "unload" /\ lastCall.key = "vertexBuffer"
  /\ cacheEntries = <<>>
  /\ \A k \in CacheKeys :
       \E l \in Instances : loaders[l].cacheKey = k /\ loaders[l].destroyCalls = 1
  /\ \A l \in Instances : ~Live(l) /\ held[l] = 0

-----------------------------------------------------------------------------
(* get *)

\* C9: once a loader L is registered under key K, a get(K) returns L and adds
\* exactly 1 to the entry's referenceCount; it changes nothing else in the entry,
\* no other entry, and no loader.
C9_GetHitReturnsLoaderAndCounts ==
  [][lastCall'.op = "get" /\ Present(lastCall'.key) =>
       /\ lastCall'.thrown = "none"
       /\ lastCall'.ret = cacheEntries[lastCall'.key].resourceLoader
       /\ cacheEntries' = [cacheEntries EXCEPT ![lastCall'.key].referenceCount = @ + 1]
       /\ keyOrder' = keyOrder
       /\ loaders' = loaders]_vars

\* A get hit the entry that a load registered in the step before
C9_Witness ==
  /\ lastCall.op = "get" /\ lastCall.thrown = "none"
  /\ Present(lastCall.key)
  /\ lastCall.ret = cacheEntries[lastCall.key].resourceLoader
  /\ cacheEntries[lastCall.key].referenceCount = 2
  /\ held[lastCall.ret] = 2
  /\ \A k \in CacheKeys : Present(k)

\* C10: a get(K) for a key that has no entry, never registered or removed
\* again, returns undefined and changes nothing in the registry: no entry is
\* created and no count changes.
C10_GetMissChangesNothing ==
  [][lastCall'.op = "get" /\ ~Present(lastCall'.key) =>
       /\ lastCall'.thrown = "none"
       /\ lastCall'.ret = Undefined
       /\ cacheEntries' = cacheEntries
       /\ keyOrder' = keyOrder
       /\ loaders' = loaders]_vars

\* A get missed a key whose entry had been removed, while another entry exists
C10_Witness ==
  /\ lastCall.op = "get" /\ lastCall.ret = Undefined
  /\ ~Present(lastCall.key)
  /\ \E l \in Instances : loaders[l].cacheKey = lastCall.key /\ loaders[l].destroyCalls = 1
  /\ \E k \in CacheKeys : Present(k) /\ cacheEntries[k].referenceCount = 1

-----------------------------------------------------------------------------
(* Contract violations *)

\* The step changes nothing in the registry and calls no load() or destroy()
RegistryUnchanged ==
  /\ cacheEntries' = cacheEntries
  /\ keyOrder' = keyOrder
  /\ \A l \in Instances : loaders'[l] = loaders[l]

\* C11: a load of a second, different loader whose key is already present throws
\* the contract-violation error; the registry keeps the first entry (same loader,
\* referenceCount and keepResident) and load() is not invoked on the second loader.
C11_DuplicateLoadRejected ==
  [][lastCall'.op = "load" /\ Present(lastCall'.key) =>
       /\ lastCall'.thrown = "Resource with this cacheKey is already in the cache"
       /\ lastCall'.ret = Undefined
       /\ RegistryUnchanged
       /\ Len(loaders') = Len(loaders) + 1
       /\ loaders'[Len(loaders')].cacheKey = lastCall'.key
       /\ loaders'[Len(loaders')].loadCalls = 0]_vars

C11_Witness ==
  /\ lastCall.op = "load"
  /\ lastCall.thrown = "Resource with this cacheKey is already in the cache"
  /\ Present(lastCall.key)
  /\ cacheEntries[lastCall.key].resourceLoader # Len(loaders)
  /\ cacheEntries[lastCall.key].referenceCount = 2
  /\ cacheEntries[lastCall.key].keepResident
  /\ loaders[Len(loaders)].cacheKey = lastCall.key
  /\ loaders[Len(loaders)].loadCalls = 0

\* C12: an unload of a loader whose key is absent from the registry, or whose
\* entry's referenceCount is already 0, throws a contract-violation error and
\* changes nothing: no count, no destroy(), no entry removed.
C12_BadUnloadRejected ==
  [][/\ lastCall'.op = "unload"
     /\ \/ ~Present(lastCall'.key)
        \/ cacheEntries[lastCall'.key].referenceCount = 0
     => /\ lastCall'.thrown = IF Present(lastCall'.key)
                              THEN "Cannot unload resource that has no references."
                              ELSE "Resource is not in the cache"
        /\ RegistryUnchanged
        /\ loaders' = loaders]_vars

\* An unload of a keepResident entry at count 0 was rejected, after an unload of
\* an absent key had been: the entry is still there and its loader undestroyed
C12_Witness ==
  /\ lastCall.op = "unload"
  /\ lastCall.thrown = "Cannot unload resource that has no references."
  /\ Present(lastCall.key)
  /\ cacheEntries[lastCall.key].referenceCount = 0
  /\ Live(cacheEntries[lastCall.key].resourceLoader)
  /\ \E k \in CacheKeys : ~Present(k)

\* C13: an entry registered with keepResident = true is not destroyed and not
\* removed by any call other than clearForSpecs, whatever its referenceCount,
\* 0 included: it keeps its loader and its flag, and destroy() is not invoked.
C13_KeepResidentStays ==
  [][\A k \in DOMAIN cacheEntries :
       cacheEntries[k].keepResident /\ lastCall'.op # "clearForSpecs" =>
         /\ k \in DOMAIN cacheEntries'
         /\ cacheEntries'[k].keepResident
         /\ cacheEntries'[k].resourceLoader = cacheEntries[k].resourceLoader
         /\ loaders'[cacheEntries[k].resourceLoader].destroyCalls =
              loaders[cacheEntries[k].resourceLoader].destroyCalls]_vars

\* The last unload brought a keepResident entry to count 0: it is still
\* registered and its loader has not been destroyed
C13_Witness ==
  /\ lastCall.op = "unload" /\ lastCall.thrown = "none"
  /\ Present(lastCall.key)
  /\ cacheEntries[lastCall.key].keepResident
  /\ cacheEntries[lastCall.key].referenceCount = 0
  /\ Live(cacheEntries[lastCall.key].resourceLoader)
  /\ \A l \in Instances : held[l] = 0

-----------------------------------------------------------------------------
(* Bulk clear *)

\* C14: clearForSpecs, from every reachable state, completes without an error,
\* leaves the registry empty and has invoked destroy() on every loader that was
\* registered, the loaders that unload a dependency in destroy() included.
C14_ClearCompletes ==
  [][lastCall'.op = "clearForSpecs" =>
       /\ lastCall'.thrown = "none"
       /\ DOMAIN cacheEntries' = {}
       /\ \A l \in Instances :
            Registered(l) => loaders'[l].destroyCalls > loaders[l].destroyCalls]_vars

\* C15: over any sequence of calls, clearForSpecs included, destroy() is
\* invoked at most once on any loader.
C15_DestroyAtMostOnce ==
  \A l \in Instances : loaders[l].destroyCalls <= 1

-----------------------------------------------------------------------------
(* Registration order *)

\* C16: load inserts the entry, with referenceCount 1, before it invokes
\* loader.load(): a lookup of the key during load() finds the entry. load() is
\* invoked exactly once on every loader that is or was registered, and never twice.
C16_EntryInsertedBeforeLoad ==
  \A l \in Instances :
    /\ loaders[l].loadCalls <= 1
    /\ Registered(l) => loaders[l].loadCalls = 1
    /\ loaders[l].loadCalls = 1 => loaders[l].entryAtLoad = 1

\* A vertex-buffer loader registered by a miss, whose load() then registered its
\* buffer view: both were loaded once with their entry in place, and the entry
\* has since been hit up to count MaxRefs
C16_Witness ==
  /\ Present("vertexBuffer") /\ Present("bufferView")
  /\ keyOrder = <<"vertexBuffer", "bufferView">>
  /\ cacheEntries["vertexBuffer"].referenceCount = MaxRefs
  /\ \A k \in CacheKeys :
        /\ loaders[cacheEntries[k].resourceLoader].loadCalls = 1
        /\ loaders[cacheEntries[k].resourceLoader].entryAtLoad = 1
  /\ loaders[cacheEntries["vertexBuffer"].resourceLoader].dep =
       cacheEntries["bufferView"].resourceLoader

-----------------------------------------------------------------------------
(* Load state *)

LoadStates == {"UNLOADED", "LOADING", "READY", "FAILED"}

\* The machine state with loader l in load state st
InState(s, l, st) == [s EXCEPT !.loaders[l].state = st]

\* What unload leaves behind, the load-state fields aside
Effect(s) ==
  [cacheEntries |-> s.cacheEntries, keyOrder |-> s.keyOrder,
   thrown |-> s.thrown, ret |-> s.ret,
   loaders |-> [l \in DOMAIN s.loaders |-> [s.loaders[l] EXCEPT !.state = "-"]]]

\* C20: the effect of unload (the decrement, and at zero on an entry that is not
\* keepResident the destroy() and the removal) is the same whatever the load
\* state of the loader: UNLOADED, LOADING, READY or FAILED.
C20_UnloadIgnoresLoadState ==
  \A l \in Instances :
     \E e \in {Effect(unload(Start, l))} :
        \A st \in LoadStates \ {loaders[l].state} :
           Effect(unload(InState(Start, l, st), l)) = e

\* The last unload was of a loader in state FAILED: it brought the entry to
\* zero, destroyed the loader and removed the entry, and no entry is left
C20_Witness ==
  /\ lastCall.op = "unload" /\ lastCall.thrown = "none"
  /\ lastCall.state = "FAILED"
  /\ ~Present(lastCall.key)
  /\ \E l \in Instances :
        /\ loaders[l].cacheKey = lastCall.key
        /\ loaders[l].loadCalls = 1 /\ loaders[l].destroyCalls = 1
  /\ \A k \in CacheKeys : ~Present(k)
  /\ \A l \in Instances : loaders[l].destroyCalls = 1

-----------------------------------------------------------------------------
(* Malformed arguments *)

\* C17: a get with the empty string as key, or a load of a loader whose
\* cacheKey is the empty string, is rejected with a contract-violation error
\* and creates no entry.
C17_EmptyKeyRejected ==
  /\ "" \notin DOMAIN cacheEntries
  /\ lastCall.op \in {"get", "load"} /\ lastCall.key = "" => lastCall.thrown # "none"

\* The fields the documentation of each typed constructor gives as required,
\* with their types
Required(kind) ==
  CASE kind = "loadSchema" -> {}
    [] kind = "loadEmbeddedBuffer" ->
         {<<"parentResource", "object">>, <<"bufferId", "number">>,
          <<"typedArray", "object">>}
    [] kind = "loadExternalBuffer" -> {<<"resource", "object">>}
    [] kind = "loadGltf" -> {<<"gltfResource", "object">>, <<"baseResource", "object">>}
    [] kind = "loadBufferView" ->
         {<<"gltf", "object">>, <<"bufferViewId", "number">>,
          <<"gltfResource", "object">>, <<"baseResource", "object">>}
    [] kind = "loadDraco" ->
         {<<"gltf", "object">>, <<"draco", "object">>,
          <<"gltfResource", "object">>, <<"baseResource", "object">>}
    [] kind = "loadVertexBuffer" ->
         {<<"gltf", "object">>, <<"gltfResource", "object">>, <<"baseResource", "object">>}
    [] kind = "loadIndexBuffer" ->
         {<<"gltf", "object">>, <<"accessorId", "number">>,
          <<"gltfResource", "object">>, <<"baseResource", "object">>}
    [] kind = "loadImage" ->
         {<<"gltf", "object">>, <<"imageId", "number">>, <<"gltfResource", "object">>,
          <<"baseResource", "object">>, <<"supportedImageFormats", "object">>}
    [] kind = "loadTexture" ->
         {<<"gltf", "object">>, <<"textureInfo", "object">>, <<"gltfResource", "object">>,
          <<"baseResource", "object">>, <<"supportedImageFormats", "object">>}

\* A required field of the descriptor is missing or of the wrong type; for the
\* image kinds the four capability flags are required booleans
Malformed(kind, options) ==
  \/ \E r \in Required(kind) : ~typeOf(options[r[1]], r[2])
  \/ /\ kind \in {"loadImage", "loadTexture"}
     /\ \E flag \in {"webp", "s3tc", "pvrtc", "etc1"} :
          ~typeOf(Field(options.supportedImageFormats, flag), "boolean")

\* C18: every typed constructor, given a descriptor with a required field
\* missing or of the wrong type, throws at once: no loader is constructed and the
\* registry (entries, reference counts, keepResident flags) is unchanged.
C18_MalformedDescriptorRejected ==
  \A kind \in Kinds : \A options \in Requests(kind) :
     Malformed(kind, options) =>
       \E s \in {TypedLoad(kind, Start, options)} :
          /\ s.thrown # "none"
          /\ s.ret = Undefined
          /\ s.loaders = loaders
          /\ s.cacheEntries = cacheEntries
          /\ s.keyOrder = keyOrder

\* A loadImage whose capability flags lack etc1 has just been rejected, with two
\* entries registered, one of them shared and one keepResident
C18_Witness ==
  /\ lastCall.op = "loadImage"
  /\ lastCall.thrown = "DeveloperError: options.supportedImageFormats.etc1"
  /\ Malformed("loadImage", [BaseOptions("loadImage") EXCEPT
                               !.supportedImageFormats = Formats(3)])
  /\ Len(keyOrder) = MaxConstructed /\ Len(loaders) = MaxConstructed
  /\ \E k \in DOMAIN cacheEntries : cacheEntries[k].referenceCount = MaxShared
  /\ \E k \in DOMAIN cacheEntries : cacheEntries[k].keepResident

\* C19: two loadImage requests that differ only in supportedImageFormats derive
\* different keys and never share a loader: a request is answered with a loader
\* constructed for its own capability flags, as it is for loadTexture.
C19_FormatsSeparateImageLoaders ==
  \A options \in Requests("loadImage") :
     \E s \in {loadImage(Start, options)} :
        Ok(s) /\ s.ret # Undefined =>
          s.loaders[s.ret].supportedImageFormats = options.supportedImageFormats

-----------------------------------------------------------------------------
(* Check-then-insert *)

TypedOps == {"loadBufferView", "loadVertexBuffer"}

\* C21: a typed load that misses inserts its entry in the registry it checked:
\* whatever calls and completion callbacks came before, the call never throws
\* "already in the cache", and a loadBufferView that constructs a loader finds the
\* key absent before and leaves exactly its new entry, with referenceCount 1,
\* added to the entries that were there.
C21_CheckThenInsertAtomic ==
  [][lastCall'.op \in TypedOps =>
       /\ lastCall'.thrown # "Resource with this cacheKey is already in the cache"
       /\ lastCall'.op = "loadBufferView" /\ Len(loaders') > Len(loaders) =>
            /\ ~Present(watch)
            /\ lastCall'.thrown = "none" /\ lastCall'.ret = Len(loaders')
            /\ DOMAIN cacheEntries' = DOMAIN cacheEntries \cup {watch}
            /\ cacheEntries'[watch].resourceLoader = Len(loaders')
            /\ cacheEntries'[watch].referenceCount = 1
            /\ \A k \in DOMAIN cacheEntries : cacheEntries'[k] = cacheEntries[k]]_vars

\* A typed load has just missed and registered the last loader the bound allows,
\* after a completion callback ran and with the other key registered
C21_Witness ==
  /\ lastCall.op = "loadBufferView" /\ lastCall.thrown = "none"
  /\ lastCall.ret = MaxLoaders /\ Len(loaders) = MaxLoaders
  /\ cacheEntries[watch].resourceLoader = MaxLoaders
  /\ cacheEntries[watch].referenceCount = 1
  /\ Present("vertexBuffer")
  /\ \E l \in Instances : loaders[l].state \in {"READY", "FAILED"}

-----------------------------------------------------------------------------
(* Frame of the reference counts *)

\* The entries of the step's first state that are still registered after it
Kept == DOMAIN cacheEntries \cap DOMAIN cacheEntries'

Delta(k) == cacheEntries'[k].referenceCount - cacheEntries[k].referenceCount

\* The step is a get or a typed load that hit: it returned a loader and
\* constructed none
Hit ==
  /\ lastCall'.op \in TypedOps \cup {"get"}
  /\ lastCall'.thrown = "none" /\ lastCall'.ret # Undefined
  /\ Len(loaders') = Len(loaders)

\* The step registered a loader whose load() acquired the entry of key k
AcquiredByNewLoader(k) ==
  /\ Len(loaders') > Len(loaders)
  /\ \E l \in (Len(loaders) + 1)..Len(loaders') :
        /\ loaders'[l].cacheKey \in Dependent
        /\ loaders'[l].dep = cacheEntries'[k].resourceLoader

-----------------------------------------------------------------------------
(* Shape of the entries *)

\* C23: in every reachable state every entry has an integer referenceCount >= 0
\* and owns one loader, whose cacheKey is the key the entry is stored under; an
\* entry that a step registers has referenceCount exactly 1 after it.
C23_EntriesWellFormed ==
  [][/\ \A k \in DOMAIN cacheEntries' :
          /\ cacheEntries'[k].referenceCount \in Nat
          /\ cacheEntries'[k].resourceLoader \in 1..Len(loaders')
          /\ loaders'[cacheEntries'[k].resourceLoader].cacheKey = k
     /\ \A k \in DOMAIN cacheEntries' \ DOMAIN cacheEntries :
          cacheEntries'[k].referenceCount = 1]_vars

\* The last loader the bound allows has just been registered, with count 1,
\* beside a keepResident entry whose count has gone down to 0
C23_Witness ==
  /\ lastCall.thrown = "none" /\ lastCall.ret = MaxLoaders
  /\ \E k \in DOMAIN cacheEntries :
        /\ cacheEntries[k].resourceLoader = MaxLoaders
        /\ cacheEntries[k].referenceCount = 1
        /\ loaders[MaxLoaders].cacheKey = k
  /\ \E k \in DOMAIN cacheEntries :
        cacheEntries[k].keepResident /\ cacheEntries[k].referenceCount = 0

-----------------------------------------------------------------------------
(* One-of rules *)

\* The call returned a loader registered under cacheKey: the one that was
\* registered, with one more reference, or a new one with referenceCount 1
ReturnsRegistered(s, cacheKey) ==
  /\ s.thrown = "none" /\ s.ret # Undefined
  /\ cacheKey \in DOMAIN s.cacheEntries
  /\ s.cacheEntries[cacheKey].resourceLoader = s.ret
  /\ s.loaders[s.ret].cacheKey = cacheKey
  /\ IF cacheKey \in DOMAIN cacheEntries
     THEN /\ s.ret = cacheEntries[cacheKey].resourceLoader
          /\ Len(s.loaders) = Len(loaders)
          /\ s.cacheEntries[cacheKey].referenceCount =
               cacheEntries[cacheKey].referenceCount + 1
     ELSE /\ s.ret > Len(loaders)
          /\ s.cacheEntries[cacheKey].referenceCount = 1

\* The call threw and left the registry and the loaders as they were
Rejected(s) ==
  /\ s.thrown # "none" /\ s.ret = Undefined
  /\ s.cacheEntries = cacheEntries /\ s.keyOrder = keyOrder /\ s.loaders = loaders

\* C24: loadSchema throws DeveloperError, the registry unchanged, when
\* options.schema and options.resource are both defined or both undefined;
\* otherwise it returns a schema loader registered or found under the derived key.
C24_SchemaOneOf ==
  \A options \in Requests("loadSchema") :
     \E s \in {loadSchema(Start, options)} :
        IF defined(options.schema) = defined(options.resource)
        THEN /\ Rejected(s)
             /\ s.thrown = "One of options.schema and options.resource must be defined."
        ELSE ReturnsRegistered(s, getSchemaCacheKey(options))

\* A loadSchema has just been rejected, after a request by schema and a request
\* by resource were each registered and the second one found again
C24_Witness ==
  /\ lastCall.op = "loadSchema"
  /\ lastCall.thrown = "One of options.schema and options.resource must be defined."
  /\ keyOrder = <<"schema:embedded", "schema:external">>
  /\ cacheEntries["schema:external"].referenceCount = MaxShared
  /\ cacheEntries["schema:embedded"].referenceCount = 1

\* The documented conditions of a vertex-buffer request
VertexBufferAccepted(options) ==
  /\ typeOf(options.gltf, "object")
  /\ typeOf(options.gltfResource, "object")
  /\ typeOf(options.baseResource, "object")
  /\ defined(options.bufferViewId) # defined(options.draco)
  /\ defined(options.draco) => defined(options.dracoAttributeSemantic)

\* C25: loadVertexBuffer returns a registered vertex-buffer loader if and only if
\* gltf, gltfResource and baseResource are objects, exactly one of bufferViewId
\* and draco is defined and, with draco, dracoAttributeSemantic is defined; in
\* every other case it throws and the registry is unchanged. A request with a
\* draco object and a dracoAttributeSemantic string succeeds.
C25_VertexBufferAcceptedIff ==
  \A options \in Requests("loadVertexBuffer") :
     \E s \in {loadVertexBuffer(Start, options)} :
        IF VertexBufferAccepted(options)
        THEN ReturnsRegistered(s, getVertexBufferCacheKey(options))
        ELSE Rejected(s)

-----------------------------------------------------------------------------
(* Tile-content classification *)

Preprocessed == tile.payload # NoPayload

\* C26: preproces3DTileContent classifies by a fixed precedence.  A payload whose magic
\* (glTF read as glb) is a binary format comes back with that magic as contentType, the
\* bytes as binaryPayload and no jsonPayload.  Any other payload that parses as JSON comes
\* back as EXTERNAL_TILESET when geometricError is defined, whether or not asset is, and
\* as GLTF when only asset is, with the parsed object as jsonPayload and no binaryPayload.
C26_ClassifiedByPrecedence ==
  Preprocessed =>
    LET magic == IF tile.payload.magic = "glTF" THEN "glb" ELSE tile.payload.magic
        json == tile.payload.json
    IN /\ magic \in BinaryFormats =>
            tile.result = TileContent(magic, tile.payload, NoJson)
       /\ magic \notin BinaryFormats /\ json.parsed /\ defined(json.geometricError) =>
            tile.result = TileContent(EXTERNAL_TILESET, NoPayload, json)
       /\ magic \notin BinaryFormats /\ json.parsed /\ ~defined(json.geometricError)
            /\ defined(json.asset) =>
            tile.result = TileContent(GLTF, NoPayload, json)

\* a tileset JSON that carries an asset as well was classified as an external tileset
C26_Witness ==
  /\ Preprocessed
  /\ tile.payload.json.parsed
  /\ defined(tile.payload.json.geometricError)
  /\ defined(tile.payload.json.asset)
  /\ tile.result.contentType = EXTERNAL_TILESET

-----------------------------------------------------------------------------
(* EllipsoidGeometry: pack / unpack and the constructor's checks *)

\* the geometry under hand has been packed into the array
Packed == defined(geo.array)
PackedAt == Index(defaultValue(geo.start, Number(0)))
OffsetSlot == PackedAt + EllipsoidGeometry_packedLength - 1

\* C27: for a valid geometry g and a starting index s, unpacking what pack wrote at s,
\* with or without a result object, gives a geometry whose radii, innerRadii,
\* vertexFormat, clocks, cones, partitions and offsetAttribute are those of g; an
\* undefined offsetAttribute is stored as -1 and read back as undefined; and pack leaves
\* every element outside the packedLength elements from s as it was.
C27_PackUnpackRoundTrip ==
  /\ Packed =>
       /\ \A result \in {Undef, ResultObject} :
            unpack(geo.array, geo.start, result) = Returned(geo.value)
       /\ geo.array.at[OffsetSlot] = Number(-1) <=> ~defined(geo.value.offsetAttribute)
       /\ defined(geo.value.offsetAttribute) =>
            geo.array.at[OffsetSlot] = geo.value.offsetAttribute
       /\ DOMAIN geo.array.at = DOMAIN FreshArray.at
       /\ \A i \in DOMAIN geo.array.at :
            i \notin PackedAt..(PackedAt + EllipsoidGeometry_packedLength - 1) =>
              geo.array.at[i] = FreshArray.at[i]
  /\ geo.op = "unpack" /\ geo.out.thrown = "none" => geo.out.ret = geo.value

\* a geometry without offsetAttribute, made from rounded partitions, was packed at index
\* one and unpacked into a result object
C27_Witness ==
  /\ geo.op = "unpack"
  /\ geo.start = Number(1)
  /\ defined(geo.result)
  /\ geo.result # geo.value
  /\ geo.options.stackPartitions = AndAHalf(2)
  /\ ~defined(geo.value.offsetAttribute)
  /\ geo.array.at[OffsetSlot] = Number(-1)
  /\ geo.out = Returned(geo.value)

\* the value given for a partition count is a number below three
BelowThree(x) == defined(x) /\ lessThan(x, 3)

\* C28: constructing an EllipsoidGeometry raises DeveloperError whenever
\* options.slicePartitions or options.stackPartitions is less than three, and succeeds for
\* every value of three or more, an omitted count being 64.
C28_PartitionsBelowThreeRejected ==
  geo.op = "new" =>
    IF BelowThree(geo.options.slicePartitions) \/ BelowThree(geo.options.stackPartitions)
    THEN geo.out.thrown \in
           {"DeveloperError: options.slicePartitions cannot be less than three.",
            "DeveloperError: options.stackPartitions cannot be less than three."}
    ELSE /\ geo.out.thrown = "none"
         /\ geo.value.slicePartitions = defaultValue(geo.options.slicePartitions, Number(64))
         /\ geo.value.stackPartitions = defaultValue(geo.options.stackPartitions, Number(64))

-----------------------------------------------------------------------------
(* keepResident: fixed at registration; a resident entry at count 0 *)

\* The handler state after n unloads of loader l, one after the other
RECURSIVE UnloadTimes(_, _, _)
UnloadTimes(s, l, n) == IF n = 0 THEN s ELSE UnloadTimes(unload(s, l), l, n - 1)

\* a request for the watched key that asks for residency
ResidentRequest ==
  [BufferViewOptions EXCEPT !.bufferViewId = Num(0), !.keepResident = Bool(TRUE)]

\* C29: an entry's keepResident flag is fixed when the entry is registered: no step
\* changes it on an entry that stays registered, and a get or a typed load with
\* keepResident = true that hits an entry returns its loader and leaves the flag as it
\* was, so that a non-resident entry is still removed and its loader destroyed when
\* its references are released down to 0.
C29_KeepResidentFixed ==
  [][/\ \A k \in Kept : cacheEntries'[k].keepResident = cacheEntries[k].keepResident
     /\ Present(watch) =>
          \A s \in {loadBufferView(Start, ResidentRequest), get(Start, watch)} :
            /\ Ok(s)
            /\ s.ret = cacheEntries[watch].resourceLoader
            /\ s.cacheEntries[watch].keepResident = cacheEntries[watch].keepResident
            /\ ~cacheEntries[watch].keepResident =>
                 \E e \in {UnloadTimes(s, s.ret, s.cacheEntries[watch].referenceCount)} :
                   /\ Ok(e)
                   /\ watch \notin DOMAIN e.cacheEntries
                   /\ e.loaders[s.ret].destroyCalls = loaders[s.ret].destroyCalls + 1]_vars

\* a non-resident entry was hit by typed loads, then released down to 0: it is gone
\* and its loader destroyed
C29_Witness ==
  /\ lastCall.op = "unload"
  /\ lastCall.thrown = "none"
  /\ run.kind = "unload"
  /\ run.fromLoads
  /\ run.n >= 2
  /\ ~run.resident
  /\ ~Present(watch)
  /\ loaders[run.loader].destroyCalls = 1

\* a keepResident entry nobody references
ResidentIdle(k) ==
  /\ Present(k)
  /\ cacheEntries[k].keepResident
  /\ cacheEntries[k].referenceCount = 0

\* The key the call of the step is about
CalledKey ==
  IF lastCall'.op = "loadBufferView" THEN getBufferViewCacheKey(BufferViewOptions)
  ELSE IF lastCall'.op = "loadVertexBuffer" THEN "vertexBuffer"
  ELSE lastCall'.key

SameLoaderKept(k) ==
  /\ k \in DOMAIN cacheEntries'
  /\ cacheEntries'[k].resourceLoader = cacheEntries[k].resourceLoader
  /\ loaders'[cacheEntries[k].resourceLoader].destroyCalls
       = loaders[cacheEntries[k].resourceLoader].destroyCalls

\* C30: a keepResident entry whose count an unload takes to 0 stays registered with
\* its loader not destroyed, and stays so until clearForSpecs; a get or a typed load
\* of its key then returns that same loader, sets the count to 1 and constructs no
\* loader; an unload at count 0 is rejected with an error and changes nothing.
C30_ResidentEntryAtZero ==
  [][\A k \in DOMAIN cacheEntries :
       /\ /\ cacheEntries[k].keepResident
          /\ lastCall'.op = "unload"
          /\ lastCall'.thrown = "none"
          /\ CalledKey = k
          => /\ SameLoaderKept(k)
             /\ cacheEntries'[k].referenceCount = cacheEntries[k].referenceCount - 1
       /\ ResidentIdle(k) =>
            /\ lastCall'.op # "clearForSpecs" => SameLoaderKept(k)
            /\ /\ lastCall'.op \in {"get", "loadBufferView", "loadVertexBuffer"}
               /\ lastCall'.thrown = "none"
               /\ CalledKey = k
               => /\ lastCall'.ret = cacheEntries[k].resourceLoader
                  /\ cacheEntries'[k].referenceCount = 1
                  /\ Len(loaders') = Len(loaders)
            /\ lastCall'.op = "unload" /\ CalledKey = k =>
                 /\ lastCall'.thrown = "Cannot unload resource that has no references."
                 /\ cacheEntries' = cacheEntries
                 /\ loaders' = loaders]_vars

\* the resident buffer view, released to 0, is handed out again by a typed load that
\* follows no run of typed loads: the same and only loader, count 1, never destroyed
C30_Witness ==
  /\ lastCall.op = "loadBufferView"
  /\ lastCall.thrown = "none"
  /\ Present(watch)
  /\ cacheEntries[watch].keepResident
  /\ cacheEntries[watch].referenceCount = 1
  /\ lastCall.ret = cacheEntries[watch].resourceLoader
  /\ loaders[lastCall.ret].loadCalls = 1
  /\ loaders[lastCall.ret].destroyCalls = 0
  /\ held[lastCall.ret] = 1
  /\ Len(loaders) = 1
  /\ run = NoRun

-----------------------------------------------------------------------------
(* After eviction: fresh instances, destroyed loaders, ownership *)

\* The loader instances the entries of the registry own
Owned == {cacheEntries[k].resourceLoader : k \in DOMAIN cacheEntries}
OwnedNext == {cacheEntries'[k].resourceLoader : k \in DOMAIN cacheEntries'}

\* C31: once the last unload has destroyed a non-resident loader and removed its key,
\* the instance is out of the registry for good: a typed load of the key finds no entry,
\* constructs a fresh instance, registers it with referenceCount 1 and calls its load()
\* exactly once, and every loader a get or a typed load returns is a registered one.
C31_FreshLoaderAfterEviction ==
  [][/\ \A l \in 1..Len(loaders) : l \notin Owned => l \notin OwnedNext
     /\ /\ lastCall'.op \in TypedOps
        /\ lastCall'.thrown = "none"
        /\ ~Present(CalledKey)
        => /\ lastCall'.ret > Len(loaders)
           /\ CalledKey \in DOMAIN cacheEntries'
           /\ cacheEntries'[CalledKey].resourceLoader = lastCall'.ret
           /\ cacheEntries'[CalledKey].referenceCount = 1
           /\ loaders'[lastCall'.ret].cacheKey = CalledKey
           /\ loaders'[lastCall'.ret].loadCalls = 1
           /\ loaders'[lastCall'.ret].destroyCalls = 0
     /\ /\ lastCall'.op \in TypedOps \cup {"get"}
        /\ lastCall'.ret # Undefined
        => lastCall'.ret \in OwnedNext]_vars

\* the first buffer-view loader was destroyed by the last unload and its key removed;
\* the typed load that followed registered a second instance and loaded it once
C31_Witness ==
  /\ lastCall.op = "loadBufferView"
  /\ lastCall.thrown = "none"
  /\ Len(loaders) = 2
  /\ loaders[1].cacheKey = watch
  /\ loaders[1].destroyCalls = 1
  /\ loaders[1].loadCalls = 1
  /\ lastCall.ret = 2
  /\ Present(watch)
  /\ ~cacheEntries[watch].keepResident
  /\ cacheEntries[watch].resourceLoader = 2
  /\ cacheEntries[watch].referenceCount = 1
  /\ loaders[2].loadCalls = 1
  /\ loaders[2].destroyCalls = 0

\* C32: between cache calls no loader an entry of the registry owns has had destroy()
\* called on it, so the loader a get or a typed load has returned is not a destroyed
\* one.  (A call is one step: the loader an unload or a clear is destroying is never
\* seen in a state.)
C32_NoDestroyedLoaderRegistered ==
  /\ \A k \in DOMAIN cacheEntries :
       loaders[cacheEntries[k].resourceLoader].destroyCalls = 0
  /\ /\ lastCall.op \in TypedOps \cup {"get"}
     /\ lastCall.ret # Undefined
     => loaders[lastCall.ret].destroyCalls = 0

\* C33: when an unload removes an entry, destroy() is called on the loader the entry
\* owns, whichever loader object carrying the entry's key was passed: the loaders
\* destroyed by a successful unload are the owners of the entries it removed.
C33_UnloadDestroysOwnedLoader ==
  [][lastCall'.op = "unload" /\ lastCall'.thrown = "none" =>
       /\ \A k \in DOMAIN cacheEntries \ DOMAIN cacheEntries' :
            loaders'[cacheEntries[k].resourceLoader].destroyCalls
              = loaders[cacheEntries[k].resourceLoader].destroyCalls + 1
       /\ \A l \in 1..Len(loaders) :
            loaders'[l].destroyCalls > loaders[l].destroyCalls =>
              \E k \in DOMAIN cacheEntries \ DOMAIN cacheEntries' :
                 cacheEntries[k].resourceLoader = l]_vars

\* C34: between cache calls every entry that is not keepResident has
\* referenceCount >= 1; a count of 0 is seen on keepResident entries only.
C34_NonResidentCountPositive ==
  \A k \in DOMAIN cacheEntries :
     ~cacheEntries[k].keepResident => cacheEntries[k].referenceCount >= 1

\* C35: for a key of the registry, get followed at once by unload of the loader it
\* returned gives back the registry as it was (entries, counts, flags, key order) and
\* calls neither load() nor destroy().
C35_GetThenUnloadRestores ==
  \A k \in DOMAIN cacheEntries :
     \E s \in {get(Start, k)} :
       \E e \in {unload(s, s.ret)} :
          /\ Ok(e)
          /\ e.cacheEntries = cacheEntries
          /\ e.keyOrder = keyOrder
          /\ e.loaders = loaders

-----------------------------------------------------------------------------
(* A load() that raises *)

RaisedInLoad == lastCall'.op = "loadExternalBuffer" /\ lastCall'.thrown = "Error: load() raised"

\* C36: when the loader's load() raises inside ResourceCache.load, the typed
\* constructor's call ends with that exception and returns no loader, and the entry
\* registered just before stays: the key is in the registry with the new loader and
\* referenceCount 1, every other entry is as it was, and load() was called once.  A
\* request that constructs a loader whose load() raises always ends this way, and a
\* later request for the key is a hit that returns the loader and calls no load().
C36_RaisingLoadLeavesEntry ==
  [][/\ RaisedInLoad =>
          /\ lastCall'.ret = Undefined
          /\ lastCall'.key \notin DOMAIN cacheEntries
          /\ DOMAIN cacheEntries' = DOMAIN cacheEntries \cup {lastCall'.key}
          /\ \A k \in DOMAIN cacheEntries : cacheEntries'[k] = cacheEntries[k]
          /\ Len(loaders') = Len(loaders) + 1
          /\ cacheEntries'[lastCall'.key].resourceLoader = Len(loaders')
          /\ cacheEntries'[lastCall'.key].referenceCount = 1
          /\ loaders'[Len(loaders')].loadCalls = 1
          /\ loaders'[Len(loaders')].destroyCalls = 0
     /\ /\ lastCall'.op = "loadExternalBuffer"
        /\ Len(loaders') > Len(loaders)
        /\ lastCall'.key \in Raising
        => RaisedInLoad
     /\ /\ lastCall'.op = "loadExternalBuffer"
        /\ lastCall'.key \in Raising \cap DOMAIN cacheEntries
        => /\ lastCall'.thrown = "none"
           /\ lastCall'.ret = cacheEntries[lastCall'.key].resourceLoader
           /\ loaders' = loaders]_vars

\* the request for the resident buffer of the resource that cannot be fetched has
\* just failed in load(): its entry is there at count 1, beside another buffer's
C36_Witness ==
  /\ lastCall.op = "loadExternalBuffer"
  /\ lastCall.thrown = "Error: load() raised"
  /\ lastCall.ret = Undefined
  /\ "externalBuffer" \in DOMAIN cacheEntries
  /\ lastCall.key \in DOMAIN cacheEntries
  /\ cacheEntries[lastCall.key].referenceCount = 1
  /\ cacheEntries[lastCall.key].keepResident
  /\ loaders[cacheEntries[lastCall.key].resourceLoader].loadCalls = 1
  /\ held[cacheEntries[lastCall.key].resourceLoader] = 0

====
